---- MODULE Spec2Model ----
(***************************************************************************)
(* Telemetry simulation and relay actuation protocol of energy-monitor-si. *)
(*                                                                         *)
(* Two programs share the protocol:                                        *)
(*   - the standalone simulator, src/src/simulator/sensor_sim.py           *)
(*     (RelayManager, one process-wide MODE, publish_batch, _on_message);  *)
(*   - the dashboard, src/src/dashboard/main.py (AppState, per-area mode   *)
(*     map, simulation_loop, _on_mqtt_message, REST control_relay).        *)
(* Each program has its own specification over the variables it owns; the  *)
(* generator cursor and the outbound channels are the same objects in      *)
(* both programs and are shared by the specifications.                     *)
(*                                                                         *)
(* Units: loads are in 1e-4 kWh (the code rounds to 4 decimals), the drift *)
(* accumulator in hundredths (1.0 = 100, step 0.02 = 2, cap 3.0 = 300).    *)
(***************************************************************************)
EXTENDS Integers, Sequences, FiniteSets, TLC

VARIABLES
    \* simulator: RelayManager (relay_mgr)
    rm_states, rm_last_changed, rm_change_reasons,
    \* simulator: process-wide mode (environment)
    MODE,
    \* dashboard: AppState (state); interval_sec is the sleep between ticks
    \* in tenths of a second
    relay_states, relay_reasons, relay_changed_by, area_modes, interval_sec,
    \* SensorSimulator (sim): generator cursor
    seq, drift, intermittent_skip,
    \* publish loop: the local "iterations", the passes still to run, the
    \* position in "for area in AREAS", the running totals; gen_pc is where
    \* the dashboard's simulation thread stands inside get_reading
    iterations, iter_left, cursor, total_kwh, published, gen_pc,
    \* publish loop: the frames its latest step handed to client.publish
    wire,
    \* per process: where its main thread stands (connect, loop, finally,
    \* stop, done) and its run flag (_running, state.running)
    proc,
    \* outbound channels: last reading per area, relay_ack frames,
    \* relay_status snapshots, the retained message on system/status
    readings, acks, relay_status, status,
    \* per process: its mqtt.Client (last will, connection, subscriptions,
    \* network loop thread) and the last line its command handler logged at
    \* WARNING or above
    client, log_last,
    \* observers of the outbound traffic: readings produced per area since
    \* the tick began, and per area the outcome of every generator call made
    \* while the area's mode was intermittent
    tick_readings, inter_log,
    \* dashboard: the command each handler thread is executing, statement by
    \* statement (network thread, REST worker thread)
    mqtt_job, rest_job,
    \* datetime.now() as read by the relay code: the number of reads so far
    \* (timestamps are modelled by their order)
    clock

rmVars   == <<rm_states, rm_last_changed, rm_change_reasons>>
appVars  == <<relay_states, relay_reasons, relay_changed_by, area_modes,
             interval_sec>>
genVars  == <<seq, drift, intermittent_skip>>
loopVars == <<iterations, iter_left, cursor, total_kwh, published, gen_pc,
             tick_readings, wire, proc>>
jobVars  == <<mqtt_job, rest_job>>
mqttVars == <<relay_status, status, client, log_last>>
vars == <<rm_states, rm_last_changed, rm_change_reasons, MODE,
          relay_states, relay_reasons, relay_changed_by, area_modes,
          interval_sec, seq, drift, intermittent_skip, iterations, iter_left, cursor,
          total_kwh, published, gen_pc, readings, acks, relay_status, status,
          client, log_last, tick_readings, inter_log, mqtt_job, rest_job,
          clock, wire, proc>>

----------------------------------------------------------------------------
(* Bounds of the model *)

\* generator calls per area
MaxSeq == 2
\* ack frames on the relay_ack channel
MaxAcks == 2
\* snapshots on the relay_status channel
MaxStatus == 1
\* generator calls per area while the fault modes are exercised
MaxCalls == 3
\* generator calls per area made before the drift specification starts
DriftCallsBefore == 99

----------------------------------------------------------------------------
(* Area registry, enums, environment *)

\* AREAS, scaled down to two of its ten entries, in dictionary order
AreaOrder == <<"biblioteca", "auditorio">>
Areas == {AreaOrder[i] : i \in 1..Len(AreaOrder)}

ANOMALY_AREA == "auditorio"
TOPIC_PREFIX == "edificio"

SimMode == {"normal", "anomaly", "sensor_failure", "gradual_drift",
            "intermittent", "flood", "night_anomaly"}

ENCENDIDO == "ENCENDIDO"
APAGADO   == "APAGADO"
RelayState == {ENCENDIDO, APAGADO}

\* Python's None: as a generator result, and where a string is expected
\* (the area of a system-wide command, dict.get of a missing key)
None == [present |-> FALSE]
PyNone == "<None>"

\* _gaussian_noise floors the load at 0.01 kWh
NoiseFloor == 100
\* drift accumulator: start, step, cap, degradation threshold
DriftStart == 100
DriftStep == 2
DriftCap == 300
DriftDegraded == 150
\* publish_batch iterations in flood mode
FloodIterations == 10

\* loads _gaussian_noise can return after round(..., 4): any value from the
\* floor up, sampled at the floor
KwhSamples == {NoiseFloor}

Min(x, y) == IF x <= y THEN x ELSE y

----------------------------------------------------------------------------
(* Inbound command frames *)

CutKeywords == {"cortar_energia", "corte_emergencia", "apagar"}
RestoreKeywords == {"restaurar_energia", "encender", "restablecer"}

\* second topic segment of a delivered command: a registered area, an
\* unregistered one, the literal "all", or the system topic
TopicSegments == Areas \cup {"sotano", "all", "system"}

\* payload "accion" values: cut keywords (one in upper case), a restore
\* keyword, the status query, an unrecognized one, and the empty default of
\* payload.get
Acciones == {"cortar_energia", "corte_emergencia", "APAGAR", "encender",
             "status_rele", "autodestruir", ""}

Motivos == {"mantenimiento"}
Origenes == {"telegram"}

\* str.lower() on the inputs above
Lower(s) == IF s = "APAGAR" THEN "apagar" ELSE s

Topic(segment) == <<TOPIC_PREFIX, segment, "comando">>

\* delivered frames: decodable JSON objects, and one payload per topic that
\* json.loads rejects
Messages ==
    [topic : {Topic(s) : s \in TopicSegments}, valid : {TRUE},
     accion : Acciones, motivo : Motivos, origen : Origenes]
    \cup [topic : {Topic(s) : s \in TopicSegments}, valid : {FALSE},
          accion : {""}, motivo : Motivos, origen : Origenes]

----------------------------------------------------------------------------
(* The transport: one mqtt.Client per process, the broker's retained status *)

\* the two programs; each is a process with a client of its own
Procs == {"simulator", "dashboard"}

\* the filters both programs subscribe to when a connection is acknowledged
CommandFilters == {<<TOPIC_PREFIX, "+", "comando">>,
                   <<TOPIC_PREFIX, "system", "comando">>}

\* the broker's match of a topic against a filter ("+" is one level)
Matches(filter, topic) ==
    /\ Len(filter) = Len(topic)
    /\ \A i \in 1..Len(topic) : filter[i] \in {"+", topic[i]}

\* mqtt.Client(...) as constructed: no will, no connection, loop thread not
\* started
ClientNew ==
    [will |-> PyNone, conn |-> "new", subscriptions |-> {}, loop |-> "stopped"]

\* the simulator's client once main has run will_set, connect and
\* loop_start and _on_connect has handled the broker's acknowledgement
SimClientReady ==
    [will |-> "offline", conn |-> "connected", subscriptions |-> CommandFilters,
     loop |-> "running"]

\* the dashboard's client once simulation_loop has run connect and
\* loop_start and _on_mqtt_connect has handled the acknowledgement
DashClientReady ==
    [will |-> PyNone, conn |-> "connected", subscriptions |-> CommandFilters,
     loop |-> "running"]

\* the broker hands msg to process p's on_message callback
Delivers(p, msg) ==
    /\ client[p].conn = "connected"
    /\ client[p].loop = "running"
    /\ \E f \in client[p].subscriptions : Matches(f, msg.topic)

\* an exception leaves a callback: paho's loop thread re-raises it and ends
callback_returned(c, exc) ==
    IF exc = PyNone THEN c ELSE [c EXCEPT !.loop = "dead"]

\* the handler's log after a callback that logged line (PyNone: no line at
\* WARNING or above)
log_after(last, line) == IF line = PyNone THEN last ELSE line

----------------------------------------------------------------------------
(* Python dictionaries whose keys appear on first assignment *)

EmptyDict == [k \in {} |-> FALSE]
put(d, k, v) == [x \in DOMAIN d \cup {k} |-> IF x = k THEN v ELSE d[x]]
get(d, k, default) == IF k \in DOMAIN d THEN d[k] ELSE default

----------------------------------------------------------------------------
(* RelayManager (simulator) *)

RelayManagerInit ==
    /\ rm_states = [a \in Areas |-> ENCENDIDO]
    /\ rm_last_changed = EmptyDict
    /\ rm_change_reasons = EmptyDict

relay_mgr == [states |-> rm_states, last_changed |-> rm_last_changed,
              change_reasons |-> rm_change_reasons]

\* RelayManager.get_state
get_state(rm, area) == get(rm.states, area, ENCENDIDO)

\* RelayManager.is_on
is_on(rm, area) == get_state(rm, area) = ENCENDIDO

\* RelayManager.get_all_states; the "" of an area never changed is 0, the
\* time before every clock read
get_all_states(rm) ==
    [a \in DOMAIN rm.states |->
        [estado |-> rm.states[a],
         ultimo_cambio |-> get(rm.last_changed, a, 0),
         motivo |-> get(rm.change_reasons, a, "")]]

\* set_state as it would be if a relay already in the requested state were
\* reported as a failure and left untouched
set_state_rejects_same(rm, area, state, reason, now) ==
    IF area \notin DOMAIN rm.states \/ rm.states[area] = state
    THEN [ok |-> FALSE, rm |-> rm]
    ELSE [ok |-> TRUE,
          rm |-> [states |-> [rm.states EXCEPT ![area] = state],
                  last_changed |-> put(rm.last_changed, area, now),
                  change_reasons |-> put(rm.change_reasons, area, reason)]]

\* RelayManager.set_state: the returned flag and the manager afterwards
set_state(rm, area, state, reason, now) ==
    IF area \notin DOMAIN rm.states
    THEN [ok |-> FALSE, rm |-> rm]
    ELSE [ok |-> TRUE,
          rm |-> [states |-> [rm.states EXCEPT ![area] = state],
                  last_changed |-> put(rm.last_changed, area, now),
                  change_reasons |-> put(rm.change_reasons, area, reason)]]

\* the for-loop "for a in AREAS: relay_mgr.set_state(a, state, motivo)",
\* from the i-th area on; every call reads the clock anew
RECURSIVE set_all(_, _, _, _, _)
set_all(rm, i, state, reason, now) ==
    IF i > Len(AreaOrder) THEN rm
    ELSE set_all(set_state(rm, AreaOrder[i], state, reason, now + i).rm,
                 i + 1, state, reason, now)

----------------------------------------------------------------------------
(* SensorSimulator of the simulator: one process-wide MODE that applies   *)
(* to ANOMALY_AREA                                                         *)

SensorSimulatorInit ==
    /\ seq = [a \in Areas |-> 0]
    /\ drift = [a \in Areas |-> DriftStart]
    /\ intermittent_skip = EmptyDict

sim == [seq |-> seq, drift |-> drift, intermittent_skip |-> intermittent_skip]

\* get_reading (simulator) as it would be if the process-wide mode applied
\* to every area and not to ANOMALY_AREA alone
get_reading_every_area(s, area, mode, night, kwh) ==
    LET seq1 == [s.seq EXCEPT ![area] = @ + 1]
        failure == mode = "sensor_failure"
        inter == ~failure /\ mode = "intermittent"
        skip == get(s.intermittent_skip, area, FALSE)
        absent == failure \/ (inter /\ skip)
        spike == mode = "anomaly" \/ (mode = "night_anomaly" /\ night)
    IN  [sim |-> [seq |-> seq1, drift |-> s.drift,
                  intermittent_skip |->
                      IF inter THEN put(s.intermittent_skip, area, ~skip)
                      ELSE s.intermittent_skip],
         reading |->
            IF absent THEN None
            ELSE [present |-> TRUE, area |-> area, kwh |-> kwh, modo |-> mode,
                  quality |-> IF spike THEN "degraded" ELSE "ok",
                  sequence |-> seq1[area],
                  relay_state |-> ENCENDIDO,
                  tags |-> IF spike THEN {"spike_anomaly"} ELSE {}]]

\* SensorSimulator.get_reading (simulator): the result (a reading or None)
\* and the generator afterwards. night is _is_night(), kwh the rounded
\* output of _gaussian_noise.
get_reading(s, area, mode, night, kwh) ==
    LET seq1 == [s.seq EXCEPT ![area] = @ + 1]
        failure == mode = "sensor_failure" /\ area = ANOMALY_AREA
        inter == ~failure /\ mode = "intermittent" /\ area = ANOMALY_AREA
        skip == get(s.intermittent_skip, area, FALSE)
        skip1 == IF inter THEN put(s.intermittent_skip, area, ~skip)
                 ELSE s.intermittent_skip
        absent == failure \/ (inter /\ skip)
        tags0 == IF inter THEN {"intermittent_recovery"} ELSE {}
        drifting == mode = "gradual_drift" /\ area = ANOMALY_AREA
        drift1 == IF ~absent /\ drifting
                  THEN [s.drift EXCEPT ![area] = Min(@ + DriftStep, DriftCap)]
                  ELSE s.drift
        branch == CASE drifting ->
                         [tags |-> {"drift_factor"},
                          quality |-> IF drift1[area] > DriftDegraded
                                      THEN "degraded" ELSE "ok"]
                    [] mode = "anomaly" /\ area = ANOMALY_AREA ->
                         [tags |-> {"spike_anomaly"}, quality |-> "degraded"]
                    [] mode = "night_anomaly" /\ area = ANOMALY_AREA /\ night ->
                         [tags |-> {"night_spike"}, quality |-> "degraded"]
                    [] OTHER -> [tags |-> {}, quality |-> "ok"]
    IN  [sim |-> [seq |-> seq1, drift |-> drift1, intermittent_skip |-> skip1],
         reading |->
            IF absent THEN None
            ELSE [present |-> TRUE, area |-> area, kwh |-> kwh, modo |-> mode,
                  quality |-> branch.quality, sequence |-> seq1[area],
                  relay_state |-> ENCENDIDO,
                  tags |-> tags0 \cup branch.tags]]

\* the zero reading publish_batch builds for an area whose relay is off
relay_off_reading(s, area) ==
    [present |-> TRUE, area |-> area, kwh |-> 0, modo |-> "relay_off",
     quality |-> "relay_off", sequence |-> get(s.seq, area, 0),
     relay_state |-> APAGADO, tags |-> {"relay_off"}]

----------------------------------------------------------------------------
(* Simulator: _on_message, _publish_relay_ack *)

\* topic.split("/") and the area of "edificio/{area}/comando"
parse_area(topic) ==
    IF Len(topic) >= 3 /\ topic[Len(topic)] = "comando"
    THEN [ok |-> TRUE, area |-> IF topic[2] # "system" THEN topic[2] ELSE PyNone]
    ELSE [ok |-> FALSE, area |-> PyNone]

\* _publish_relay_ack: the frame sent on {prefix}/system/relay_ack
relay_ack(area, new_state, motivo, origen) ==
    [area |-> area, relay_state |-> new_state, motivo |-> motivo,
     origen |-> origen]

\* the relay branch as it would be if the system-wide loop published its
\* ack inside the loop, once per area
relay_command_ack_each(rm, area, new_state, motivo, origen, now) ==
    IF area # PyNone /\ area \in Areas
    THEN [rm |-> set_state(rm, area, new_state, motivo, now + 1).rm,
          acks |-> <<relay_ack(area, new_state, motivo, origen)>>,
          reads |-> 1]
    ELSE IF area = PyNone
    THEN [rm |-> set_all(rm, 1, new_state, motivo, now),
          acks |-> [i \in 1..Len(AreaOrder) |->
                       relay_ack("system", new_state, motivo, origen)],
          reads |-> Len(AreaOrder)]
    ELSE [rm |-> rm, acks |-> <<>>, reads |-> 0]

\* the relay branch of _on_message for a cut or restore keyword: the
\* manager afterwards, the acks it publishes and the clock reads it makes
relay_command(rm, area, new_state, motivo, origen, now) ==
    IF area # PyNone /\ area \in Areas
    THEN [rm |-> set_state(rm, area, new_state, motivo, now + 1).rm,
          acks |-> <<relay_ack(area, new_state, motivo, origen)>>,
          reads |-> 1]
    ELSE IF area = PyNone
    THEN [rm |-> set_all(rm, 1, new_state, motivo, now),
          acks |-> <<relay_ack("system", new_state, motivo, origen)>>,
          reads |-> Len(AreaOrder)]
    ELSE [rm |-> rm, acks |-> <<>>, reads |-> 0]

\* a handler outcome that touched nothing; exc is the exception that leaves
\* the block (PyNone when it ends normally), log the warning it logged
nothing_done(rm, exc, log) ==
    [rm |-> rm, acks |-> <<>>, reads |-> 0, status |-> <<>>, exc |-> exc,
     log |-> log]

\* the try block of _on_message: the manager afterwards, the acks and the
\* relay_status snapshots published, the clock reads made, and the
\* exception that leaves the block
on_message_try(rm, msg, now) ==
    LET parsed == parse_area(msg.topic)
        accion == Lower(msg.accion)
        applied(r) == [rm |-> r.rm, acks |-> r.acks, reads |-> r.reads,
                       status |-> <<>>, exc |-> PyNone, log |-> PyNone]
    IN  IF ~msg.valid THEN nothing_done(rm, "JSONDecodeError", PyNone)
        ELSE IF ~parsed.ok THEN nothing_done(rm, PyNone, "unknown_topic")
        ELSE IF accion \in CutKeywords
        THEN applied(relay_command(rm, parsed.area, APAGADO, msg.motivo,
                                   msg.origen, now))
        ELSE IF accion \in RestoreKeywords
        THEN applied(relay_command(rm, parsed.area, ENCENDIDO, msg.motivo,
                                   msg.origen, now))
        ELSE IF accion = "status_rele"
        THEN [rm |-> rm, acks |-> <<>>, reads |-> 0,
              status |-> <<get_all_states(rm)>>, exc |-> PyNone,
              log |-> PyNone]
        ELSE nothing_done(rm, PyNone, "unknown_action")

\* _on_message as it would be without its except clauses
on_message_uncaught(rm, msg, now) == on_message_try(rm, msg, now)

\* _on_message as it would be if the status query were handled by the
\* restore branch
on_message_status_restores(rm, msg, now) ==
    on_message_try(rm, IF msg.valid /\ Lower(msg.accion) = "status_rele"
                       THEN [msg EXCEPT !.accion = "restablecer"] ELSE msg, now)

\* _on_message as it would be if its final else branch applied a cut
on_message_unknown_cuts(rm, msg, now) ==
    on_message_try(rm, IF msg.valid /\ Lower(msg.accion) \notin
                              CutKeywords \cup RestoreKeywords \cup {"status_rele"}
                       THEN [msg EXCEPT !.accion = "apagar"] ELSE msg, now)

\* _on_message: "except json.JSONDecodeError" and "except Exception" log
\* what the try block raises and the callback returns
on_message(rm, msg, now) ==
    LET r == on_message_try(rm, msg, now) IN
        IF r.exc = "JSONDecodeError"
        THEN [r EXCEPT !.exc = PyNone, !.log = "invalid_json"]
        ELSE IF r.exc # PyNone
        THEN [r EXCEPT !.exc = PyNone, !.log = "error"]
        ELSE r

\* the paho network thread delivers one command to _on_message
OnMessage(msg) ==
    /\ Delivers("simulator", msg)
    /\ Len(acks) < MaxAcks
    /\ Len(relay_status) < MaxStatus
    /\ LET r == on_message(relay_mgr, msg, clock) IN
        /\ rm_states' = r.rm.states
        /\ rm_last_changed' = r.rm.last_changed
        /\ rm_change_reasons' = r.rm.change_reasons
        /\ acks' = acks \o r.acks
        /\ relay_status' = relay_status \o r.status
        /\ clock' = clock + r.reads
        /\ client' = [client EXCEPT
                         !["simulator"] = callback_returned(@, r.exc)]
        /\ log_last' = [log_last EXCEPT !["simulator"] = log_after(@, r.log)]
    /\ UNCHANGED <<MODE, appVars, genVars, loopVars, readings, jobVars, status,
                   inter_log>>

----------------------------------------------------------------------------
(* Simulator: main loop and publish_batch *)

\* one more reading of the area observed in the current tick
counted(count, area, present) ==
    IF present THEN [count EXCEPT ![area] = @ + 1] ELSE count

\* one more generator call observed for an area in intermittent mode
logged(log, area, intermittent, relay_on, present) ==
    IF intermittent
    THEN [log EXCEPT ![area] =
             Append(@, [relay_on |-> relay_on, present |-> present])]
    ELSE log

\* the frame of one reading on its area's topic
reading_frame(r) ==
    [topic |-> <<TOPIC_PREFIX, r.area, "consumo">>, payload |-> r]

\* the BatchSummary frame built from the running totals
summary_frame(total, count) ==
    [topic |-> <<TOPIC_PREFIX, "summary">>,
     payload |-> [total_kwh |-> total, areas_reporting |-> count,
                  areas_total |-> Len(AreaOrder)]]

\* a main thread at pc whose run flag is still set
Main(pc) == [pc |-> pc, running |-> TRUE]

\* main: "while _running: publish_batch(client, sim)" enters a tick
PublishBatchStart ==
    /\ proc["simulator"] = Main("loop")
    /\ iter_left = 0
    /\ iterations' = IF MODE = "flood" THEN FloodIterations ELSE 1
    /\ iter_left' = iterations'
    /\ cursor' = 1
    /\ total_kwh' = 0
    /\ published' = 0
    /\ tick_readings' = [a \in Areas |-> 0]
    /\ wire' = <<>>
    /\ UNCHANGED <<rmVars, MODE, appVars, genVars, gen_pc, readings, acks, clock,
                   jobVars, mqttVars, inter_log, proc>>

\* publish_batch: the loop body for one area. rc_ok is whether
\* client.publish returned MQTT_ERR_SUCCESS.
PublishArea(night, kwh, rc_ok) ==
    /\ iter_left > 0
    /\ cursor <= Len(AreaOrder)
    /\ LET area == AreaOrder[cursor] IN
        IF ~is_on(relay_mgr, area)
        THEN /\ readings' = [readings EXCEPT ![area] = relay_off_reading(sim, area)]
             /\ wire' = <<reading_frame(relay_off_reading(sim, area))>>
             /\ published' = published + 1
             /\ tick_readings' = counted(tick_readings, area, TRUE)
             /\ UNCHANGED <<genVars, total_kwh, inter_log>>
        ELSE /\ seq[area] < MaxSeq
             /\ LET r == get_reading(sim, area, MODE, night, kwh) IN
                 /\ seq' = r.sim.seq
                 /\ drift' = r.sim.drift
                 /\ intermittent_skip' = r.sim.intermittent_skip
                 /\ readings' = [readings EXCEPT ![area] = r.reading]
                 /\ wire' = IF r.reading.present
                            THEN <<reading_frame(r.reading)>> ELSE <<>>
                 /\ tick_readings' =
                        counted(tick_readings, area, r.reading.present)
                 /\ inter_log' =
                        logged(inter_log, area,
                               MODE = "intermittent" /\ area = ANOMALY_AREA,
                               TRUE, r.reading.present)
                 /\ IF r.reading.present /\ rc_ok
                    THEN /\ total_kwh' = total_kwh + r.reading.kwh
                         /\ published' = published + 1
                    ELSE UNCHANGED <<total_kwh, published>>
    /\ cursor' = cursor + 1
    /\ UNCHANGED <<rmVars, MODE, appVars, iterations, iter_left, gen_pc, acks,
                   clock, jobVars, mqttVars, proc>>

\* publish_batch: the batch summary that ends one iteration
PublishSummary ==
    /\ iter_left > 0
    /\ cursor = Len(AreaOrder) + 1
    /\ iter_left' = iter_left - 1
    /\ cursor' = 1
    /\ total_kwh' = 0
    /\ published' = 0
    /\ wire' = <<summary_frame(total_kwh, published)>>
    /\ UNCHANGED <<rmVars, MODE, appVars, genVars, iterations, gen_pc,
                   tick_readings, readings, acks, clock, jobVars, mqttVars,
                   inter_log, proc>>

\* a handler thread that is not executing a command
NoJob == [pc |-> "idle"]

AppStateInit ==
    /\ area_modes = [a \in Areas |-> "normal"]
    /\ relay_states = [a \in Areas |-> ENCENDIDO]
    /\ relay_reasons = [a \in Areas |-> ""]
    /\ relay_changed_by = [a \in Areas |-> "sistema"]
    /\ interval_sec = 20

ChannelsInit ==
    /\ iterations = 0 /\ iter_left = 0 /\ cursor = 1
    /\ total_kwh = 0 /\ published = 0
    /\ gen_pc = "loop"
    /\ readings = [a \in Areas |-> None]
    /\ acks = <<>>
    /\ relay_status = <<>>
    /\ log_last = [p \in Procs |-> PyNone]
    /\ tick_readings = [a \in Areas |-> 0]
    /\ wire = <<>>
    /\ inter_log = [a \in Areas |-> <<>>]
    /\ mqtt_job = NoJob
    /\ rest_job = NoJob
    /\ clock = 0

\* the clients of a deployment in which only process p has connected
OnlyReady(p, ready) == [q \in Procs |-> IF q = p THEN ready ELSE ClientNew]

\* the simulator process, connected: SIM_MODE is any mode of the enum
InitSim ==
    /\ proc = [p \in Procs |-> Main("loop")]
    /\ MODE \in SimMode
    /\ client = OnlyReady("simulator", SimClientReady)
    /\ status = "online"
    /\ RelayManagerInit
    /\ SensorSimulatorInit
    /\ AppStateInit
    /\ ChannelsInit

NextSim ==
    \/ \E msg \in Messages : OnMessage(msg)
    \/ PublishBatchStart
    \/ \E night \in BOOLEAN, kwh \in KwhSamples, rc_ok \in BOOLEAN :
          PublishArea(night, kwh, rc_ok)
    \/ PublishSummary

SpecSim == InitSim /\ [][NextSim]_vars

\* the simulator while no command arrives: every relay stays ON
NextSimGen ==
    \/ PublishBatchStart
    \/ \E night \in BOOLEAN, kwh \in KwhSamples, rc_ok \in BOOLEAN :
          PublishArea(night, kwh, rc_ok)
    \/ PublishSummary

SpecSimGen == InitSim /\ [][NextSimGen]_vars

----------------------------------------------------------------------------
(* Dashboard: AppState, SensorSimulator with the per-area mode map *)

app == [relay_states |-> relay_states, relay_reasons |-> relay_reasons,
        relay_changed_by |-> relay_changed_by]

Range(f) == {f[x] : x \in DOMAIN f}

\* the first part of get_reading as it would be without the relay gate
get_reading_gate_open(s, area, relay) ==
    [done |-> FALSE, sim |-> [s EXCEPT !.seq[area] = @ + 1], reading |-> None]

\* SensorSimulator.get_reading (dashboard), first part: the sequence
\* increment and the relay gate. relay is state.relay_states.get(area) as
\* read by the gate; done tells whether the call returned there.
get_reading_gate(s, area, relay) ==
    LET seq1 == [s.seq EXCEPT ![area] = @ + 1]
        s1 == [s EXCEPT !.seq = seq1]
    IN  IF relay = APAGADO
        THEN [done |-> TRUE, sim |-> s1,
              reading |-> [present |-> TRUE, area |-> area, kwh |-> 0,
                           modo |-> "relay_off", quality |-> "relay_off",
                           sequence |-> seq1[area], relay_state |-> APAGADO,
                           tags |-> {"relay_off"}]]
        ELSE [done |-> FALSE, sim |-> s1, reading |-> None]

\* the sensor_failure test as it would be if it were missing
fault_gate_no_failure(skips, area, mode) ==
    LET inter == mode = "intermittent"
        skip == get(skips, area, FALSE)
    IN  [absent |-> inter /\ skip,
         skips |-> IF inter THEN put(skips, area, ~skip) ELSE skips,
         tags |-> IF inter THEN {"intermittent_recovery"} ELSE {}]

\* the intermittent branch as it would be if the flag were flipped only
\* when a reading is skipped
fault_gate_flip_on_skip(skips, area, mode) ==
    LET failure == mode = "sensor_failure"
        inter == ~failure /\ mode = "intermittent"
        skip == get(skips, area, FALSE)
    IN  [absent |-> failure \/ (inter /\ skip),
         skips |-> IF inter /\ skip THEN put(skips, area, ~skip) ELSE skips,
         tags |-> IF inter THEN {"intermittent_recovery"} ELSE {}]

\* get_reading (dashboard), "if mode == SENSOR_FAILURE" and "if mode ==
\* INTERMITTENT": whether the call returns None there, the skip flags
\* afterwards and the tags so far
fault_gate(skips, area, mode) ==
    LET failure == mode = "sensor_failure"
        inter == ~failure /\ mode = "intermittent"
        skip == get(skips, area, FALSE)
    IN  [absent |-> failure \/ (inter /\ skip),
         skips |-> IF inter THEN put(skips, area, ~skip) ELSE skips,
         tags |-> IF inter THEN {"intermittent_recovery"} ELSE {}]

\* the drift step as it would be if the accumulator started over at the cap
drift_next_resets(d) == IF d >= DriftCap THEN DriftStart ELSE d + DriftStep

\* the drift step as it would be without the cap
drift_next_uncapped(d) == d + DriftStep

\* "min(self._drift[area] + 0.02, 3.0)"
drift_next(d) == Min(d + DriftStep, DriftCap)

\* the second part of get_reading as it would be if night_anomaly spiked at
\* any hour
get_reading_mode_any_hour(s, area, mode, relay_label, night, kwh) ==
    LET gate == fault_gate(s.intermittent_skip, area, mode)
        drifting == mode = "gradual_drift"
        drift1 == IF ~gate.absent /\ drifting
                  THEN [s.drift EXCEPT ![area] = drift_next(@)]
                  ELSE s.drift
        branch == CASE drifting ->
                         [tags |-> {"drift_factor"},
                          quality |-> IF drift1[area] > DriftDegraded
                                      THEN "degraded" ELSE "ok"]
                    [] mode = "anomaly" ->
                         [tags |-> {"spike_anomaly"}, quality |-> "degraded"]
                    [] mode = "night_anomaly" ->
                         [tags |-> {"night_spike"}, quality |-> "degraded"]
                    [] OTHER -> [tags |-> {}, quality |-> "ok"]
    IN  [sim |-> [seq |-> s.seq, drift |-> drift1,
                  intermittent_skip |-> gate.skips],
         reading |->
            IF gate.absent THEN None
            ELSE [present |-> TRUE, area |-> area, kwh |-> kwh, modo |-> mode,
                  quality |-> branch.quality, sequence |-> s.seq[area],
                  relay_state |-> relay_label,
                  tags |-> gate.tags \cup branch.tags]]

\* SensorSimulator.get_reading (dashboard), second part: the fault mode and
\* the composed reading. mode is state.area_modes.get(area, NORMAL) and
\* relay_label state.relay_states.get(area, ENCENDIDO), both as read there.
get_reading_mode(s, area, mode, relay_label, night, kwh) ==
    LET gate == fault_gate(s.intermittent_skip, area, mode)
        skip1 == gate.skips
        absent == gate.absent
        tags0 == gate.tags
        drifting == mode = "gradual_drift"
        drift1 == IF ~absent /\ drifting
                  THEN [s.drift EXCEPT ![area] = drift_next(@)]
                  ELSE s.drift
        branch == CASE drifting ->
                         [tags |-> {"drift_factor"},
                          quality |-> IF drift1[area] > DriftDegraded
                                      THEN "degraded" ELSE "ok"]
                    [] mode = "anomaly" ->
                         [tags |-> {"spike_anomaly"}, quality |-> "degraded"]
                    [] mode = "night_anomaly" /\ night ->
                         [tags |-> {"night_spike"}, quality |-> "degraded"]
                    [] OTHER -> [tags |-> {}, quality |-> "ok"]
    IN  [sim |-> [seq |-> s.seq, drift |-> drift1, intermittent_skip |-> skip1],
         reading |->
            IF absent THEN None
            ELSE [present |-> TRUE, area |-> area, kwh |-> kwh, modo |-> mode,
                  quality |-> branch.quality, sequence |-> s.seq[area],
                  relay_state |-> relay_label,
                  tags |-> tags0 \cup branch.tags]]

----------------------------------------------------------------------------
(* Dashboard: _on_mqtt_message and the REST endpoint control_relay *)

\* "parts[1] if len(parts) >= 3 and parts[1] != 'system' else None"
mqtt_area(topic) ==
    IF Len(topic) >= 3 /\ topic[2] # "system" THEN topic[2] ELSE PyNone

\* the loop "for a in targets:" with its three assignments, from the i-th
\* target on
RECURSIVE assign_targets(_, _, _, _, _, _)
assign_targets(st, targets, i, new_state, motivo, origen) ==
    IF i > Len(targets) THEN st
    ELSE assign_targets(
            [relay_states |-> put(st.relay_states, targets[i], new_state),
             relay_reasons |-> put(st.relay_reasons, targets[i], motivo),
             relay_changed_by |-> put(st.relay_changed_by, targets[i], origen)],
            targets, i + 1, new_state, motivo, origen)

\* the targets as they would be if every command were system-wide
mqtt_targets_every_area(area) == AreaOrder

\* the targets as they would be without the registry test
mqtt_targets_unchecked(area) ==
    IF area # PyNone THEN <<area>> ELSE AreaOrder

\* "targets = [area] if area and area in AREAS else list(AREAS.keys())"
mqtt_targets(area) ==
    IF area # PyNone /\ area \in Areas THEN <<area>> ELSE AreaOrder

\* the ack of _on_mqtt_message: "area or 'system'", no origen field
mqtt_ack(area, new_state, motivo) ==
    [area |-> IF area = PyNone THEN "system" ELSE area,
     relay_state |-> new_state, motivo |-> motivo]

\* the try block of _on_mqtt_message: the relay records afterwards, the
\* acks and relay_status snapshots published, and the exception that leaves
\* the block
on_mqtt_message_try(st, msg) ==
    LET area == mqtt_area(msg.topic)
        accion == Lower(msg.accion)
    IN  IF ~msg.valid
        THEN [state |-> st, acks |-> <<>>, status |-> <<>>,
              exc |-> "JSONDecodeError", log |-> PyNone]
        ELSE IF accion \in CutKeywords
        THEN [state |-> assign_targets(st, mqtt_targets(area), 1, APAGADO,
                                       msg.motivo, msg.origen),
              acks |-> <<mqtt_ack(area, APAGADO, msg.motivo)>>,
              status |-> <<>>, exc |-> PyNone, log |-> PyNone]
        ELSE IF accion \in RestoreKeywords
        THEN [state |-> assign_targets(st, mqtt_targets(area), 1, ENCENDIDO,
                                       msg.motivo, msg.origen),
              acks |-> <<mqtt_ack(area, ENCENDIDO, msg.motivo)>>,
              status |-> <<>>, exc |-> PyNone, log |-> PyNone]
        ELSE [state |-> st, acks |-> <<>>, status |-> <<>>, exc |-> PyNone,
              log |-> PyNone]

\* _on_mqtt_message: "except Exception" logs what the try block raises
on_mqtt_message(st, msg) ==
    LET r == on_mqtt_message_try(st, msg) IN
        IF r.exc # PyNone THEN [r EXCEPT !.exc = PyNone, !.log = "error"] ELSE r

\* bodies of POST /api/relays
RestAcciones == {"cortar_energia", "corte_emergencia", "apagar",
                 "restaurar_energia"}
RelayCommands == [area : Areas \cup {"sotano", "all"}, accion : RestAcciones,
                  motivo : Motivos, origen : {"dashboard"}]

\* control_relay: the new state it derives from the action
rest_new_state(accion) ==
    IF accion \in {"cortar_energia", "apagar"} THEN APAGADO ELSE ENCENDIDO

\* control_relay: the HTTP status and the relay records afterwards
control_relay(st, cmd) ==
    IF cmd.area # "all" /\ cmd.area \notin Areas
    THEN [status |-> 404, state |-> st]
    ELSE [status |-> 200,
          state |-> assign_targets(
                        st, IF cmd.area = "all" THEN AreaOrder ELSE <<cmd.area>>,
                        1, rest_new_state(cmd.accion), cmd.motivo, cmd.origen)]

\* the paho network thread delivers one command to _on_mqtt_message
OnMqttMessage(msg) ==
    /\ Delivers("dashboard", msg)
    /\ Len(acks) < MaxAcks
    /\ Len(relay_status) < MaxStatus
    /\ LET r == on_mqtt_message(app, msg) IN
        /\ relay_states' = r.state.relay_states
        /\ relay_reasons' = r.state.relay_reasons
        /\ relay_changed_by' = r.state.relay_changed_by
        /\ acks' = acks \o r.acks
        /\ relay_status' = relay_status \o r.status
        /\ client' = [client EXCEPT
                         !["dashboard"] = callback_returned(@, r.exc)]
        /\ log_last' = [log_last EXCEPT !["dashboard"] = log_after(@, r.log)]
    /\ UNCHANGED <<rmVars, MODE, area_modes, interval_sec, genVars, loopVars, readings, clock,
                   jobVars, status, inter_log>>

\* a worker thread serves POST /api/relays
ControlRelay(cmd) ==
    /\ LET r == control_relay(app, cmd) IN
        /\ relay_states' = r.state.relay_states
        /\ relay_reasons' = r.state.relay_reasons
        /\ relay_changed_by' = r.state.relay_changed_by
    /\ UNCHANGED <<rmVars, MODE, area_modes, interval_sec, genVars, loopVars, readings, acks, clock, jobVars, mqttVars, inter_log>>

\* requests of POST /api/config that name one area (or "all") and one mode
ConfigAreas == Areas \cup {"all", "sotano"}
ConfigModes == SimMode \cup {"turbo"}

\* update_config for {area: mode}: SimMode(mode) raises ValueError for a
\* value outside the enum, before any assignment
update_config(modes, area, mode) ==
    IF area \in DOMAIN modes \/ area = "all"
    THEN IF mode \notin SimMode THEN modes
         ELSE IF area = "all" THEN [k \in DOMAIN modes |-> mode]
         ELSE [modes EXCEPT ![area] = mode]
    ELSE modes

\* a worker thread serves POST /api/config
UpdateConfig(area, mode) ==
    /\ area_modes' = update_config(area_modes, area, mode)
    /\ UNCHANGED <<rmVars, MODE, relay_states, relay_reasons, relay_changed_by,
                   interval_sec,
                   genVars, loopVars, readings, acks, clock, jobVars, mqttVars, inter_log>>

\* update_config for a body whose area_modes lists several pairs, in the
\* order of config.area_modes.items(): the loop assigns pair by pair and
\* SimMode(m) raises ValueError at the first pair it reaches with a value
\* outside the enum (HTTP 500); what was assigned before stays assigned
RECURSIVE update_config_items(_, _, _)
update_config_items(modes, items, i) ==
    IF i > Len(items) THEN [status |-> 200, modes |-> modes]
    ELSE LET a == items[i][1]
             m == items[i][2]
         IN  IF (a \in DOMAIN modes \/ a = "all") /\ m \notin SimMode
             THEN [status |-> 500, modes |-> modes]
             ELSE update_config_items(update_config(modes, a, m), items, i + 1)

\* a worker thread serves POST /api/config with several pairs
UpdateConfigItems(items) ==
    /\ area_modes' = update_config_items(area_modes, items, 1).modes
    /\ UNCHANGED <<rmVars, MODE, relay_states, relay_reasons, relay_changed_by,
                   interval_sec,
                   genVars, loopVars, readings, acks, clock, jobVars, mqttVars,
                   inter_log>>

\* "max(1.0, min(config.interval_sec, 60.0))", in tenths of a second
clamp_interval(x) ==
    LET lower == IF x < 600 THEN x ELSE 600
    IN  IF lower > 10 THEN lower ELSE 10

\* a worker thread serves POST /api/config with a body that lists mode
\* pairs (none if area_modes is null) and an interval: the interval is
\* assigned after the loop over the pairs, so not when SimMode(m) raised
UpdateConfigBody(items, interval) ==
    /\ LET r == update_config_items(area_modes, items, 1) IN
        /\ area_modes' = r.modes
        /\ interval_sec' = IF r.status = 200 THEN clamp_interval(interval)
                           ELSE interval_sec
    /\ UNCHANGED <<rmVars, MODE, relay_states, relay_reasons, relay_changed_by,
                   genVars, loopVars, readings, acks, clock, jobVars, mqttVars,
                   inter_log>>

----------------------------------------------------------------------------
(* Dashboard: simulation_loop *)

\* simulation_loop's local mqtt_connected: whether client.connect returned
mqtt_connected == client["dashboard"].conn \notin {"new", "failed"}

\* "if mqtt_connected: client.publish(...)"
handed(frame) == IF mqtt_connected THEN <<frame>> ELSE <<>>

\* the start of a tick as it would be if flood were not looked at
SimulationLoopStartOnce ==
    /\ proc["dashboard"] = Main("loop")
    /\ iter_left = 0
    /\ gen_pc = "loop"
    /\ iterations' = 1
    /\ iter_left' = iterations'
    /\ cursor' = 1
    /\ total_kwh' = 0
    /\ published' = 0
    /\ tick_readings' = [a \in Areas |-> 0]
    /\ wire' = <<>>
    /\ UNCHANGED <<rmVars, MODE, appVars, genVars, gen_pc, readings, acks, clock,
                   jobVars, mqttVars, inter_log, proc>>

\* "iterations = 10 if SimMode.FLOOD in state.area_modes.values() else 1"
SimulationLoopStart ==
    /\ proc["dashboard"] = Main("loop")
    /\ iter_left = 0
    /\ gen_pc = "loop"
    /\ iterations' = IF "flood" \in Range(area_modes) THEN FloodIterations ELSE 1
    /\ iter_left' = iterations'
    /\ cursor' = 1
    /\ total_kwh' = 0
    /\ published' = 0
    /\ tick_readings' = [a \in Areas |-> 0]
    /\ wire' = <<>>
    /\ UNCHANGED <<rmVars, MODE, appVars, genVars, gen_pc, readings, acks, clock,
                   jobVars, mqttVars, inter_log, proc>>

\* the simulation thread calls get_reading for the next area and runs it up
\* to the relay gate; a zero reading is published and counted at once. The
\* area has had fewer than cap calls.
GetReadingGateUpTo(cap) ==
    /\ iter_left > 0
    /\ cursor <= Len(AreaOrder)
    /\ gen_pc = "loop"
    /\ LET area == AreaOrder[cursor]
           r == get_reading_gate(sim, area, get(relay_states, area, PyNone))
       IN  /\ seq[area] < cap
           /\ seq' = r.sim.seq
           /\ IF r.done
              THEN /\ readings' = [readings EXCEPT ![area] = r.reading]
                   /\ wire' = handed(reading_frame(r.reading))
                   /\ total_kwh' = total_kwh + r.reading.kwh
                   /\ published' = published + 1
                   /\ cursor' = cursor + 1
                   /\ tick_readings' = counted(tick_readings, area, TRUE)
                   /\ inter_log' =
                          logged(inter_log, area,
                                 get(area_modes, area, "normal") = "intermittent",
                                 FALSE, TRUE)
                   /\ UNCHANGED gen_pc
              ELSE /\ gen_pc' = "mode"
                   /\ wire' = <<>>
                   /\ UNCHANGED <<readings, total_kwh, published, cursor,
                                  tick_readings, inter_log>>
    /\ UNCHANGED <<rmVars, MODE, appVars, drift, intermittent_skip, iterations,
                   iter_left, acks, clock, jobVars, mqttVars, proc>>

GetReadingGate == GetReadingGateUpTo(MaxSeq)

\* the rest of the loop body as it would be if an absent result were
\* published and counted as a zero reading
GetReadingModeZero(night, kwh) ==
    /\ gen_pc = "mode"
    /\ LET area == AreaOrder[cursor]
           r == get_reading_mode(sim, area, get(area_modes, area, "normal"),
                                 get(relay_states, area, ENCENDIDO), night, kwh)
       IN  /\ drift' = r.sim.drift
           /\ intermittent_skip' = r.sim.intermittent_skip
           /\ readings' = [readings EXCEPT ![area] = r.reading]
           /\ wire' = IF r.reading.present
                      THEN handed(reading_frame(r.reading))
                      ELSE handed(reading_frame(relay_off_reading(r.sim, area)))
           /\ tick_readings' = counted(tick_readings, area, r.reading.present)
           /\ inter_log' =
                  logged(inter_log, area,
                         get(area_modes, area, "normal") = "intermittent",
                         TRUE, r.reading.present)
           /\ total_kwh' = IF r.reading.present
                           THEN total_kwh + r.reading.kwh ELSE total_kwh
           /\ published' = published + 1
    /\ cursor' = cursor + 1
    /\ gen_pc' = "loop"
    /\ UNCHANGED <<rmVars, MODE, appVars, seq, iterations, iter_left, acks,
                   clock, jobVars, mqttVars, proc>>

\* the simulation thread runs the rest of get_reading, reading the mode map
\* and the relay label as they are by then, and publishes the result
GetReadingMode(night, kwh) ==
    /\ gen_pc = "mode"
    /\ LET area == AreaOrder[cursor]
           r == get_reading_mode(sim, area, get(area_modes, area, "normal"),
                                 get(relay_states, area, ENCENDIDO), night, kwh)
       IN  /\ drift' = r.sim.drift
           /\ intermittent_skip' = r.sim.intermittent_skip
           /\ readings' = [readings EXCEPT ![area] = r.reading]
           /\ wire' = IF r.reading.present
                      THEN handed(reading_frame(r.reading)) ELSE <<>>
           /\ tick_readings' = counted(tick_readings, area, r.reading.present)
           /\ inter_log' =
                  logged(inter_log, area,
                         get(area_modes, area, "normal") = "intermittent",
                         TRUE, r.reading.present)
           /\ IF r.reading.present
              THEN /\ total_kwh' = total_kwh + r.reading.kwh
                   /\ published' = published + 1
              ELSE UNCHANGED <<total_kwh, published>>
    /\ cursor' = cursor + 1
    /\ gen_pc' = "loop"
    /\ UNCHANGED <<rmVars, MODE, appVars, seq, iterations, iter_left, acks,
                   clock, jobVars, mqttVars, proc>>

\* the end of an iteration as it would be if it switched every relay back
\* on
LoopSummaryRestores ==
    /\ iter_left > 0
    /\ cursor = Len(AreaOrder) + 1
    /\ gen_pc = "loop"
    /\ iter_left' = iter_left - 1
    /\ cursor' = 1
    /\ total_kwh' = 0
    /\ published' = 0
    /\ wire' = handed(summary_frame(total_kwh, published))
    /\ relay_states' = [a \in Areas |-> ENCENDIDO]
    /\ UNCHANGED <<rmVars, MODE, relay_reasons, relay_changed_by, area_modes, interval_sec,
                   genVars, iterations, gen_pc, tick_readings, readings, acks,
                   clock, jobVars, mqttVars, inter_log, proc>>

\* the end of an iteration as it would be if no summary were published
LoopSummarySilent ==
    /\ iter_left > 0
    /\ cursor = Len(AreaOrder) + 1
    /\ gen_pc = "loop"
    /\ iter_left' = iter_left - 1
    /\ cursor' = 1
    /\ total_kwh' = 0
    /\ published' = 0
    /\ wire' = <<>>
    /\ UNCHANGED <<rmVars, MODE, appVars, genVars, iterations, gen_pc,
                   tick_readings, readings, acks, clock, jobVars, mqttVars,
                   inter_log, proc>>

\* the summary that ends one iteration of the loop
LoopSummary ==
    /\ iter_left > 0
    /\ cursor = Len(AreaOrder) + 1
    /\ gen_pc = "loop"
    /\ iter_left' = iter_left - 1
    /\ cursor' = 1
    /\ total_kwh' = 0
    /\ published' = 0
    /\ wire' = handed(summary_frame(total_kwh, published))
    /\ UNCHANGED <<rmVars, MODE, appVars, genVars, iterations, gen_pc,
                   tick_readings, readings, acks, clock, jobVars, mqttVars,
                   inter_log, proc>>

\* the dashboard process, connected; MODE is not a variable of this program
InitDash ==
    /\ proc = [p \in Procs |-> Main("loop")]
    /\ MODE = "normal"
    /\ client = OnlyReady("dashboard", DashClientReady)
    /\ status = PyNone
    /\ RelayManagerInit
    /\ SensorSimulatorInit
    /\ AppStateInit
    /\ ChannelsInit

\* the simulation thread and the network thread
NextDash ==
    \/ \E msg \in Messages : OnMqttMessage(msg)
    \/ SimulationLoopStart
    \/ GetReadingGate
    \/ \E night \in BOOLEAN, kwh \in KwhSamples : GetReadingMode(night, kwh)
    \/ LoopSummary

SpecDash == InitDash /\ [][NextDash]_vars

\* modes POST /api/config asks for while the fault modes are exercised: two
\* that drop readings, the normal one and a value outside the enum
FaultModes == {"normal", "sensor_failure", "intermittent", "turbo"}

\* the area the requests of these specifications are about, and an
\* unregistered one
FaultAreas == {ANOMALY_AREA, "sotano"}

\* requests of POST /api/relays for that area: one cut, one restore
FaultRelayCommands ==
    {cmd \in RelayCommands :
        cmd.area \in FaultAreas /\ cmd.accion \in {"apagar", "restaurar_energia"}}

\* the simulation thread and the REST worker threads of /api/config and
\* /api/relays
NextDashModes ==
    \/ \E area \in FaultAreas, mode \in FaultModes : UpdateConfig(area, mode)
    \/ \E cmd \in FaultRelayCommands : ControlRelay(cmd)
    \/ SimulationLoopStart
    \/ GetReadingGateUpTo(MaxCalls)
    \/ \E night \in BOOLEAN, kwh \in KwhSamples : GetReadingMode(night, kwh)
    \/ LoopSummary

SpecDashModes == InitDash /\ [][NextDashModes]_vars

\* values of auditorio's drift accumulator after DriftCallsBefore - 1 calls, of
\* which none, some or all were made in gradual_drift mode
DriftSamples ==
    {DriftStart, DriftDegraded - DriftStep, DriftDegraded,
     DriftStart + (DriftCallsBefore - 1) * DriftStep}

\* the dashboard after DriftCallsBefore ticks without a relay command: the
\* last tick ran with every area in sensor_failure (no reading), and
\* POST /api/config has since set every area back to normal
InitDashDrift ==
    /\ proc = [p \in Procs |-> Main("loop")]
    /\ MODE = "normal"
    /\ client = OnlyReady("dashboard", DashClientReady)
    /\ status = PyNone
    /\ RelayManagerInit
    /\ AppStateInit
    /\ seq = [a \in Areas |-> DriftCallsBefore]
    /\ drift \in [Areas -> DriftSamples]
    /\ drift["biblioteca"] = DriftStart
    /\ intermittent_skip = EmptyDict
    /\ iterations = 1 /\ iter_left = 0 /\ cursor = 1
    /\ total_kwh = 0 /\ published = 0
    /\ gen_pc = "loop"
    /\ readings = [a \in Areas |-> None]
    /\ acks = <<>>
    /\ relay_status = <<>>
    /\ log_last = [p \in Procs |-> PyNone]
    /\ tick_readings = [a \in Areas |-> 0]
    /\ wire = <<>>
    /\ inter_log = [a \in Areas |-> <<>>]
    /\ mqtt_job = NoJob
    /\ rest_job = NoJob
    /\ clock = 0

\* modes POST /api/config asks for while the drift is exercised
DriftModes == {"normal", "gradual_drift", "turbo"}

NextDashDrift ==
    \/ \E area \in FaultAreas, mode \in DriftModes : UpdateConfig(area, mode)
    \/ \E cmd \in FaultRelayCommands : ControlRelay(cmd)
    \/ SimulationLoopStart
    \/ GetReadingGateUpTo(DriftCallsBefore + MaxCalls)
    \/ \E night \in BOOLEAN, kwh \in KwhSamples : GetReadingMode(night, kwh)
    \/ LoopSummary

SpecDashDrift == InitDashDrift /\ [][NextDashDrift]_vars

\* the same dashboard with POST /api/config asking, for the anomaly area,
\* for every mode of the enum that returns readings and runs one cycle per
\* tick
NextDashQuality ==
    \/ \E mode \in SimMode \ {"sensor_failure", "flood"} :
          UpdateConfig(ANOMALY_AREA, mode)
    \/ \E cmd \in FaultRelayCommands : ControlRelay(cmd)
    \/ SimulationLoopStart
    \/ GetReadingGateUpTo(DriftCallsBefore + MaxCalls)
    \/ \E night \in BOOLEAN, kwh \in KwhSamples : GetReadingMode(night, kwh)
    \/ LoopSummary

SpecDashQuality == InitDashDrift /\ [][NextDashQuality]_vars

\* modes POST /api/config asks for while flood is exercised
FloodModes == {"normal", "flood", "turbo"}

\* the simulation thread and the REST worker thread of /api/config; every
\* relay stays ON. An area is called often enough for a flood tick after
\* MaxSeq normal ones.
NextDashFlood ==
    \/ \E area \in ConfigAreas, mode \in FloodModes : UpdateConfig(area, mode)
    \/ SimulationLoopStart
    \/ GetReadingGateUpTo(MaxSeq + FloodIterations)
    \/ \E night \in BOOLEAN, kwh \in KwhSamples : GetReadingMode(night, kwh)
    \/ LoopSummary

SpecDashFlood == InitDash /\ [][NextDashFlood]_vars

\* the network thread and a REST worker thread, each handler run as one step
NextDashRelay ==
    \/ \E msg \in Messages : OnMqttMessage(msg)
    \/ \E cmd \in RelayCommands : ControlRelay(cmd)

SpecDashRelay == InitDash /\ [][NextDashRelay]_vars

\* bodies of POST /api/config with one or two pairs: a registered area, an
\* unregistered one or "all", and a mode of the enum or "turbo"
ConfigPairs == (Areas \cup {"sotano", "all"}) \X {"normal", "flood", "turbo"}
ConfigRequests ==
    {<<p>> : p \in ConfigPairs}
    \cup {r \in ConfigPairs \X ConfigPairs : r[1][1] # r[2][1]}

\* the simulation thread and the REST worker threads of /api/config
NextDashConfig ==
    \/ \E items \in ConfigRequests : UpdateConfigItems(items)
    \/ SimulationLoopStart
    \/ GetReadingGate
    \/ \E night \in BOOLEAN, kwh \in KwhSamples : GetReadingMode(night, kwh)
    \/ LoopSummary

SpecDashConfig == InitDash /\ [][NextDashConfig]_vars

\* values of the environment variable SIM_INTERVAL a deployment starts the
\* dashboard with (0.5 s, the default 2.0 s, 300 s), and values a body of
\* POST /api/config gives for interval_sec, all in tenths of a second
IntervalEnv == {5, 20, 3000}
IntervalBodies == {-10, 0, 9, 10, 300, 600, 601}

\* the dashboard process, connected, started with SIM_INTERVAL set
InitDashInterval ==
    /\ proc = [p \in Procs |-> Main("loop")]
    /\ MODE = "normal"
    /\ client = OnlyReady("dashboard", DashClientReady)
    /\ status = PyNone
    /\ RelayManagerInit
    /\ SensorSimulatorInit
    /\ area_modes = [a \in Areas |-> "normal"]
    /\ relay_states = [a \in Areas |-> ENCENDIDO]
    /\ relay_reasons = [a \in Areas |-> ""]
    /\ relay_changed_by = [a \in Areas |-> "sistema"]
    /\ interval_sec \in IntervalEnv
    /\ ChannelsInit

\* the simulation thread and the REST worker thread of /api/config
NextDashInterval ==
    \/ \E items \in {<<>>, <<<<ANOMALY_AREA, "sensor_failure">>>>,
                       <<<<ANOMALY_AREA, "turbo">>>>},
           interval \in IntervalBodies : UpdateConfigBody(items, interval)
    \/ SimulationLoopStart
    \/ GetReadingGate
    \/ \E night \in BOOLEAN, kwh \in KwhSamples : GetReadingMode(night, kwh)
    \/ LoopSummary

SpecDashInterval == InitDashInterval /\ [][NextDashInterval]_vars

\* a deployment with both programs connected to the same broker
InitCmd ==
    /\ proc = [p \in Procs |-> Main("loop")]
    /\ MODE = "normal"
    /\ client = [p \in Procs |-> IF p = "simulator" THEN SimClientReady
                                 ELSE DashClientReady]
    /\ status = "online"
    /\ RelayManagerInit
    /\ SensorSimulatorInit
    /\ AppStateInit
    /\ ChannelsInit

\* frames on one area's command topic and on the system topic: every action
\* of Acciones, and the undecodable payload
CmdMessages ==
    {m \in Messages : m.topic \in {Topic("biblioteca"), Topic("system")}}

\* the command handlers of both programs: the broker hands a frame to the
\* simulator's callback or to the dashboard's, and a REST worker serves
\* POST /api/relays
NextCmd ==
    \/ \E msg \in CmdMessages : OnMessage(msg)
    \/ \E msg \in CmdMessages : OnMqttMessage(msg)
    \/ \E cmd \in FaultRelayCommands : ControlRelay(cmd)

SpecCmd == InitCmd /\ [][NextCmd]_vars

----------------------------------------------------------------------------
(* Connection management of both programs *)

\* everything a connection step leaves alone
notTransport == <<rmVars, MODE, appVars, genVars, loopVars, readings, acks,
                  relay_status, log_last, inter_log, jobVars, clock>>

\* main: client.will_set, the first call on the new client
MainWillSet ==
    /\ client["simulator"].conn = "new"
    /\ client["simulator"].will = PyNone
    /\ client' = [client EXCEPT !["simulator"].will = "offline"]
    /\ UNCHANGED <<status, notTransport>>

\* everything a step of a main thread outside its publish loop leaves alone
notMain == <<rmVars, MODE, appVars, genVars, iterations, iter_left, cursor,
             total_kwh, published, gen_pc, tick_readings, wire, readings, acks,
             relay_status, log_last, inter_log, jobVars, clock>>

\* main: "while _running:" around client.connect; when connect returns the
\* loop breaks and loop_start follows, when it raises the error is logged
MainConnect(reached) ==
    /\ proc["simulator"] = Main("connect")
    /\ client["simulator"].conn = "new"
    /\ client["simulator"].will # PyNone
    /\ IF reached
       THEN /\ client' = [client EXCEPT !["simulator"].conn = "connecting",
                                        !["simulator"].loop = "running"]
            /\ proc' = [proc EXCEPT !["simulator"].pc = "loop"]
       ELSE /\ client' = [client EXCEPT !["simulator"].conn = "refused"]
            /\ proc' = proc
    /\ UNCHANGED <<status, notMain>>

\* main: time.sleep(10) after a refused attempt, back to "while _running"
MainRetrySleep ==
    /\ proc["simulator"].pc = "connect"
    /\ client["simulator"].conn = "refused"
    /\ client' = [client EXCEPT !["simulator"].conn = "new"]
    /\ UNCHANGED <<status, notTransport>>

\* _handle_signal: SIGINT or SIGTERM clears _running
HandleSignal ==
    /\ proc["simulator"].running
    /\ proc' = [proc EXCEPT !["simulator"].running = FALSE]
    /\ UNCHANGED <<status, client, notMain>>

\* the retry loop as it would be if it did not test _running
MainRetryExitNever == FALSE /\ UNCHANGED vars

\* main: "while _running" of the retry loop finds the flag cleared; the
\* loop ends without a connection and loop_start follows
MainRetryExit ==
    /\ proc["simulator"].pc = "connect"
    /\ ~proc["simulator"].running
    /\ client["simulator"].conn = "new"
    /\ client["simulator"].will # PyNone
    /\ client' = [client EXCEPT !["simulator"].loop = "running"]
    /\ proc' = [proc EXCEPT !["simulator"].pc = "loop"]
    /\ UNCHANGED <<status, notMain>>

\* main: "while _running" of the publish loop finds the flag cleared
MainLoopExit ==
    /\ proc["simulator"].pc = "loop"
    /\ ~proc["simulator"].running
    /\ iter_left = 0
    /\ proc' = [proc EXCEPT !["simulator"].pc = "finally"]
    /\ UNCHANGED <<status, client, notMain>>

\* main, finally: the retained offline status is handed to the client; it
\* reaches the broker if the client is connected
MainFinallyPublish ==
    /\ proc["simulator"].pc = "finally"
    /\ status' = IF client["simulator"].conn = "connected"
                 THEN "offline" ELSE status
    /\ proc' = [proc EXCEPT !["simulator"].pc = "stop"]
    /\ UNCHANGED <<client, notMain>>

\* main, finally: client.loop_stop() and client.disconnect(); the network
\* thread ends and the broker drops the session together with its will
MainStop ==
    /\ proc["simulator"].pc = "stop"
    /\ client' = [client EXCEPT !["simulator"].conn = "closed",
                                !["simulator"].subscriptions = {},
                                !["simulator"].loop = "stopped"]
    /\ proc' = [proc EXCEPT !["simulator"].pc = "done"]
    /\ UNCHANGED <<status, notMain>>

\* _on_connect: on reason code 0 it publishes the retained online status and
\* subscribes to both command filters; any other code is logged
OnConnect(reason_code) ==
    /\ client["simulator"].conn = "connecting"
    /\ client["simulator"].loop = "running"
    /\ IF reason_code = 0
       THEN /\ status' = "online"
            /\ client' = [client EXCEPT
                             !["simulator"].conn = "connected",
                             !["simulator"].subscriptions = CommandFilters]
       ELSE /\ status' = status
            /\ client' = [client EXCEPT !["simulator"].conn = "lost"]
    /\ UNCHANGED notTransport

\* simulation_loop: client.connect and loop_start inside one try; on an
\* exception the loop goes on without the broker and never tries again
DashConnect(reached) ==
    /\ proc["dashboard"].pc = "connect"
    /\ client["dashboard"].conn = "new"
    /\ client' = IF reached
                 THEN [client EXCEPT !["dashboard"].conn = "connecting",
                                     !["dashboard"].loop = "running"]
                 ELSE [client EXCEPT !["dashboard"].conn = "failed"]
    /\ proc' = [proc EXCEPT !["dashboard"].pc = "loop"]
    /\ UNCHANGED <<status, notMain>>

\* lifespan, after yield: state.running = False
Shutdown ==
    /\ proc["dashboard"].running
    /\ proc' = [proc EXCEPT !["dashboard"].running = FALSE]
    /\ UNCHANGED <<status, client, notMain>>

\* simulation_loop: "while state.running" finds the flag cleared
DashLoopExit ==
    /\ proc["dashboard"].pc = "loop"
    /\ ~proc["dashboard"].running
    /\ iter_left = 0
    /\ proc' = [proc EXCEPT !["dashboard"].pc = "stop"]
    /\ UNCHANGED <<status, client, notMain>>

\* simulation_loop: "if mqtt_connected: client.loop_stop();
\* client.disconnect()"
DashStop ==
    /\ proc["dashboard"].pc = "stop"
    /\ client' = IF mqtt_connected
                 THEN [client EXCEPT !["dashboard"].conn = "closed",
                                     !["dashboard"].subscriptions = {},
                                     !["dashboard"].loop = "stopped"]
                 ELSE client
    /\ proc' = [proc EXCEPT !["dashboard"].pc = "done"]
    /\ UNCHANGED <<status, notMain>>

\* _on_mqtt_connect: on reason code 0 it subscribes to both command filters
OnMqttConnect(reason_code) ==
    /\ client["dashboard"].conn = "connecting"
    /\ client["dashboard"].loop = "running"
    /\ client' = IF reason_code = 0
                 THEN [client EXCEPT
                          !["dashboard"].conn = "connected",
                          !["dashboard"].subscriptions = CommandFilters]
                 ELSE [client EXCEPT !["dashboard"].conn = "lost"]
    /\ UNCHANGED <<status, notTransport>>

\* the connection of p drops: the broker forgets the clean session's
\* subscriptions and publishes the will the client registered, if any
ConnectionLost(p) ==
    /\ client[p].conn = "connected"
    /\ client' = [client EXCEPT ![p].conn = "lost", ![p].subscriptions = {}]
    /\ status' = IF client[p].will # PyNone THEN client[p].will ELSE status
    /\ UNCHANGED notTransport

\* the network thread started by loop_start connects again on its own
Reconnect(p) ==
    /\ client[p].conn = "lost"
    /\ client[p].loop = "running"
    /\ client' = [client EXCEPT ![p].conn = "connecting"]
    /\ UNCHANGED <<status, notTransport>>

\* commands sent while connections come and go
ConnMessages ==
    {m \in Messages : /\ m.topic \in {Topic("biblioteca"), Topic("system")}
                      /\ m.valid
                      /\ m.accion \in {"APAGAR", "encender"}}

\* both programs from the construction of their clients on
InitConn ==
    /\ proc = [p \in Procs |-> Main("connect")]
    /\ MODE = "normal"
    /\ client = [p \in Procs |-> ClientNew]
    /\ status = PyNone
    /\ RelayManagerInit
    /\ SensorSimulatorInit
    /\ AppStateInit
    /\ ChannelsInit

NextConn ==
    \/ MainWillSet
    \/ \E reached \in BOOLEAN : MainConnect(reached)
    \/ MainRetrySleep
    \/ \E reason_code \in {0, 5} : OnConnect(reason_code)
    \/ \E reached \in BOOLEAN : DashConnect(reached)
    \/ \E reason_code \in {0, 5} : OnMqttConnect(reason_code)
    \/ \E p \in Procs : ConnectionLost(p)
    \/ \E p \in Procs : Reconnect(p)
    \/ \E msg \in ConnMessages : OnMessage(msg)
    \/ \E msg \in ConnMessages : OnMqttMessage(msg)

SpecConn == InitConn /\ [][NextConn]_vars

\* the simulator's main thread from will_set to the end of main; a tick is
\* entered while every area has generator calls left
MainThread ==
    \/ MainWillSet
    \/ \E reached \in BOOLEAN : MainConnect(reached)
    \/ MainRetrySleep
    \/ MainRetryExit
    \/ (\A a \in Areas : seq[a] < MaxSeq) /\ PublishBatchStart
    \/ \E night \in BOOLEAN, kwh \in KwhSamples, rc_ok \in BOOLEAN :
          PublishArea(night, kwh, rc_ok)
    \/ PublishSummary
    \/ MainLoopExit
    \/ MainFinallyPublish
    \/ MainStop

\* the simulator process from start to exit: its main thread, the signal
\* handler, its network thread and the broker
NextSimLife ==
    \/ MainThread
    \/ HandleSignal
    \/ \E reason_code \in {0, 5} : OnConnect(reason_code)
    \/ ConnectionLost("simulator")
    \/ Reconnect("simulator")

SpecSimLife == InitConn /\ [][NextSimLife]_vars

\* the main thread is scheduled as long as it has a statement to run
FairSpecSimLife == SpecSimLife /\ WF_vars(MainThread)

\* the dashboard process from start to exit: its simulation thread from
\* connect to the end of simulation_loop, the lifespan hook, its network
\* thread and the broker
NextDashLife ==
    \/ \E reached \in BOOLEAN : DashConnect(reached)
    \/ (\A a \in Areas : seq[a] < MaxSeq) /\ SimulationLoopStart
    \/ GetReadingGate
    \/ \E night \in BOOLEAN, kwh \in KwhSamples : GetReadingMode(night, kwh)
    \/ LoopSummary
    \/ DashLoopExit
    \/ DashStop
    \/ Shutdown
    \/ \E reason_code \in {0, 5} : OnMqttConnect(reason_code)
    \/ ConnectionLost("dashboard")
    \/ Reconnect("dashboard")

SpecDashLife == InitConn /\ [][NextDashLife]_vars

----------------------------------------------------------------------------
(* Dashboard: the two command handlers statement by statement. Neither     *)
(* takes a lock; the interpreter may switch threads between any two        *)
(* statements.                                                             *)

\* a handler enters its "for a in targets:" loop
job(targets, new_state, motivo, origen, ack) ==
    [pc |-> IF Len(targets) = 0 THEN "ack" ELSE "relay_states", i |-> 1,
     targets |-> targets, new_state |-> new_state, motivo |-> motivo,
     origen |-> origen, ack |-> ack]

\* _on_mqtt_message up to its loop: the job of a cut or restore command
mqtt_job_of(msg) ==
    LET area == mqtt_area(msg.topic)
        accion == Lower(msg.accion)
        new_state == IF accion \in CutKeywords THEN APAGADO ELSE ENCENDIDO
    IN  job(mqtt_targets(area), new_state, msg.motivo, msg.origen,
            <<mqtt_ack(area, new_state, msg.motivo)>>)

\* control_relay up to its loop: the job of an accepted request
rest_job_of(cmd) ==
    job(IF cmd.area = "all" THEN AreaOrder ELSE <<cmd.area>>,
        rest_new_state(cmd.accion), cmd.motivo, cmd.origen, <<>>)

\* the next statement of a job: one of the three assignments of the loop
\* body for the current target, or the publication that follows the loop
job_step(j, st) ==
    LET a == j.targets[j.i] IN
    CASE j.pc = "relay_states" ->
           [job |-> [j EXCEPT !.pc = "relay_reasons"],
            state |-> [st EXCEPT !.relay_states = put(@, a, j.new_state)],
            acks |-> <<>>]
      [] j.pc = "relay_reasons" ->
           [job |-> [j EXCEPT !.pc = "relay_changed_by"],
            state |-> [st EXCEPT !.relay_reasons = put(@, a, j.motivo)],
            acks |-> <<>>]
      [] j.pc = "relay_changed_by" ->
           [job |-> [j EXCEPT !.pc = IF j.i < Len(j.targets)
                                     THEN "relay_states" ELSE "ack",
                              !.i = IF j.i < Len(j.targets) THEN j.i + 1 ELSE j.i],
            state |-> [st EXCEPT !.relay_changed_by = put(@, a, j.origen)],
            acks |-> <<>>]
      [] j.pc = "ack" ->
           [job |-> [j EXCEPT !.pc = "done"], state |-> st, acks |-> j.ack]

Running(j) == j.pc \notin {"idle", "done"}

\* the network thread takes a cut or restore command
MqttBegin(msg) ==
    /\ Delivers("dashboard", msg)
    /\ ~Running(mqtt_job)
    /\ Len(acks) < MaxAcks
    /\ msg.valid
    /\ Lower(msg.accion) \in CutKeywords \cup RestoreKeywords
    /\ mqtt_job' = mqtt_job_of(msg)
    /\ UNCHANGED <<rmVars, MODE, appVars, genVars, loopVars, readings, acks,
                   rest_job, clock, mqttVars, inter_log>>

\* the network thread executes its next statement
MqttStep ==
    /\ Running(mqtt_job)
    /\ LET r == job_step(mqtt_job, app) IN
        /\ mqtt_job' = r.job
        /\ relay_states' = r.state.relay_states
        /\ relay_reasons' = r.state.relay_reasons
        /\ relay_changed_by' = r.state.relay_changed_by
        /\ acks' = acks \o r.acks
    /\ UNCHANGED <<rmVars, MODE, area_modes, interval_sec, genVars, loopVars, readings,
                   rest_job, clock, mqttVars, inter_log>>

\* a worker thread takes a request that passes the 404 check
RestBegin(cmd) ==
    /\ ~Running(rest_job)
    /\ control_relay(app, cmd).status = 200
    /\ rest_job' = rest_job_of(cmd)
    /\ UNCHANGED <<rmVars, MODE, appVars, genVars, loopVars, readings, acks,
                   mqtt_job, clock, mqttVars, inter_log>>

\* the worker thread executes its next statement
RestStep ==
    /\ Running(rest_job)
    /\ LET r == job_step(rest_job, app) IN
        /\ rest_job' = r.job
        /\ relay_states' = r.state.relay_states
        /\ relay_reasons' = r.state.relay_reasons
        /\ relay_changed_by' = r.state.relay_changed_by
    /\ UNCHANGED <<rmVars, MODE, area_modes, interval_sec, genVars, loopVars, readings, acks,
                   mqtt_job, clock, mqttVars, inter_log>>

NextDashRace ==
    \/ \E msg \in Messages : MqttBegin(msg)
    \/ MqttStep
    \/ \E cmd \in RelayCommands : RestBegin(cmd)
    \/ RestStep

SpecDashRace == InitDash /\ [][NextDashRace]_vars

----------------------------------------------------------------------------
(* Vocabulary of the properties *)

\* a cut or restore frame and the state it asks for
IsRelayCommand(msg) ==
    msg.valid /\ Lower(msg.accion) \in CutKeywords \cup RestoreKeywords
RequestedState(msg) ==
    IF Lower(msg.accion) \in CutKeywords THEN APAGADO ELSE ENCENDIDO

\* the frame names an area that is not registered (neither "all" nor the
\* system topic)
UnknownArea(msg) == msg.topic[2] \notin Areas \cup {"all", "system"}
\* the frame is addressed to every area
SystemWide(msg) == msg.topic[2] \in {"all", "system"}

\* a step of the publish loop that generates the reading of area a
Generates(a) ==
    /\ iter_left > 0 /\ cursor <= Len(AreaOrder) /\ AreaOrder[cursor] = a
    /\ cursor' = cursor + 1

\* a step of the publish loop (either program)
LoopStep == iter_left' # iter_left \/ cursor' # cursor \/ gen_pc' # gen_pc

\* the RelayRecord of an area as each program keeps it
sim_record(rm, a) ==
    [state |-> rm.states[a], reason |-> get(rm.change_reasons, a, ""),
     last_changed |-> get(rm.last_changed, a, 0)]
dash_record(st, a) ==
    [state |-> st.relay_states[a], reason |-> st.relay_reasons[a],
     actor |-> st.relay_changed_by[a]]

----------------------------------------------------------------------------
(* Properties *)

\* C1: whenever the publish loop generates the reading of an area whose relay
\* is OFF, the reading is present with load 0 and quality relay_off, and the
\* area's sequence counter was incremented and is the reading's sequence.
C1_RelayOffReadingAdvances ==
    [][\A a \in Areas :
          (Generates(a) /\ ~is_on(relay_mgr, a)) =>
              /\ readings'[a].present
              /\ readings'[a].kwh = 0
              /\ readings'[a].quality = "relay_off"
              /\ seq'[a] = seq[a] + 1
              /\ readings'[a].sequence = seq'[a]]_vars

\* C2: every reading reflects one relay state: its relay_state label is OFF
\* exactly when its load is 0 and its quality is relay_off.
C2_ReadingNotTorn ==
    \A a \in Areas :
        readings[a].present =>
            ((readings[a].relay_state = APAGADO)
                <=> (readings[a].kwh = 0 /\ readings[a].quality = "relay_off"))

\* C3: a cut or restore command for an unregistered area leaves every relay
\* record (state and audit metadata) as it was.
C3_UnknownAreaNoMutation ==
    [][\A msg \in Messages :
          (OnMqttMessage(msg) /\ IsRelayCommand(msg) /\ UnknownArea(msg)) =>
              UNCHANGED <<relay_states, relay_reasons, relay_changed_by>>]_vars

\* C4: a command for an unregistered area publishes no ack.
C4_UnknownAreaNoAck ==
    [][\A msg \in Messages :
          (OnMqttMessage(msg) /\ UnknownArea(msg)) => acks' = acks]_vars

\* C5: in every reachable state, handling a cut or restore command that is
\* addressed to "all" or sent on the system topic leaves every registered
\* relay in the requested state.
C5_AllTargetsEveryArea ==
    \A msg \in Messages :
        (IsRelayCommand(msg) /\ SystemWide(msg)) =>
            \A a \in Areas :
                on_message(relay_mgr, msg, clock).rm.states[a] = RequestedState(msg)

\* C6: command applications are serialized: once the network thread and the
\* REST worker have both finished a system-wide command, every area holds the
\* state, reason and actor of one and the same of the two commands.
C6_CommandsSerialized ==
    (/\ mqtt_job.pc = "done" /\ rest_job.pc = "done"
     /\ mqtt_job.targets = AreaOrder /\ rest_job.targets = AreaOrder)
    => \E j \in {mqtt_job, rest_job} :
          \A a \in Areas :
              dash_record(app, a) =
                  [state |-> j.new_state, reason |-> j.motivo, actor |-> j.origen]

\* C7: a step publishes exactly one ack if it applied a cut or restore
\* command (a set_state call stamped a relay) and none otherwise; steps of
\* the publish loop publish no ack.
C7_OneAckPerAppliedCommand ==
    [][/\ IF rm_last_changed' # rm_last_changed
          THEN Len(acks') = Len(acks) + 1
          ELSE acks' = acks
       /\ LoopStep => acks' = acks]_vars

\* C7 witness: biblioteca was cut before its first reading, one ack was
\* published for it, and two ticks have since ended with its zero reading.
C7_Witness ==
    /\ Len(acks) = 1
    /\ acks[1].area = "biblioteca" /\ acks[1].relay_state = APAGADO
    /\ rm_states["biblioteca"] = APAGADO
    /\ readings["biblioteca"].present
    /\ readings["biblioteca"].kwh = 0
    /\ seq["biblioteca"] = 0
    /\ seq["auditorio"] = 2
    /\ iter_left = 0

\* C8: in every reachable state, setting a registered area's relay to a state
\* twice in a row succeeds both times and the second call leaves the states
\* the first one produced; and when the last two applied commands set the
\* same area to the same state, the area is in that state.
C8_SetIdempotent ==
    /\ \A a \in Areas, s \in RelayState, r1 \in Motivos, r2 \in Motivos :
          LET first == set_state(relay_mgr, a, s, r1, clock + 1)
              second == set_state(first.rm, a, s, r2, clock + 2)
          IN  /\ first.ok /\ second.ok
              /\ first.rm.states[a] = s
              /\ second.rm.states = first.rm.states
    /\ (/\ Len(acks) >= 2
        /\ acks[Len(acks)].area \in Areas
        /\ acks[Len(acks) - 1].area = acks[Len(acks)].area
        /\ acks[Len(acks) - 1].relay_state = acks[Len(acks)].relay_state)
       => rm_states[acks[Len(acks)].area] = acks[Len(acks)].relay_state

\* C8 witness: two commands in a row cut biblioteca, both acknowledged.
C8_Witness ==
    /\ Len(acks) = 2
    /\ acks[1].area = "biblioteca" /\ acks[2].area = "biblioteca"
    /\ acks[1].relay_state = APAGADO /\ acks[2].relay_state = APAGADO
    /\ rm_states["biblioteca"] = APAGADO
    /\ rm_last_changed["biblioteca"] = 2

\* C9: after a command is applied to an area, the area's record holds the
\* command's reason, the command's actor and a timestamp later than the one
\* it held.
C9_RecordHoldsReasonActorTimestamp ==
    [][\A msg \in Messages, a \in Areas :
          (/\ OnMessage(msg) /\ IsRelayCommand(msg)
           /\ msg.topic[2] \in {a, "system"}) =>
              LET before == sim_record(relay_mgr, a)
                  after == sim_record(relay_mgr', a)
              IN  /\ after.reason = msg.motivo
                  /\ after.last_changed > before.last_changed
                  /\ "actor" \in DOMAIN after
                  /\ after.actor = msg.origen]_vars

\* C10: the areas that have a relay record are exactly the registered areas.
C10_RecordsAreRegistry ==
    /\ DOMAIN relay_states = Areas
    /\ DOMAIN relay_reasons = Areas
    /\ DOMAIN relay_changed_by = Areas
    /\ DOMAIN rm_states = Areas
    /\ DOMAIN rm_last_changed \subseteq Areas
    /\ DOMAIN rm_change_reasons \subseteq Areas

\* C10 witness: commands for an unregistered area, for "all" and on the
\* system topic have been handled, and a REST request has set a relay.
C10_Witness ==
    /\ Len(acks) = 2
    /\ acks[1].area = "sotano"
    /\ acks[2].area = "all"
    /\ relay_changed_by["auditorio"] = "dashboard"
    /\ DOMAIN relay_states = Areas

\* C11 as stated: every generator call for an area whose mode is
\* sensor_failure returns absent.
C11_FailureAlwaysAbsent ==
    [][\A a \in Areas :
          (Generates(a) /\ get(area_modes, a, "normal") = "sensor_failure") =>
              ~readings'[a].present]_vars

\* C11 as amended: while an area's mode is sensor_failure, every generator
\* call that finds the area's relay ON returns absent, and a call that finds
\* the relay OFF returns the zero relay_off reading.
C11_FailureAbsentWhileRelayOn ==
    [][\A a \in Areas :
          (Generates(a) /\ get(area_modes, a, "normal") = "sensor_failure") =>
              IF gen_pc = "mode"
              THEN ~readings'[a].present
              ELSE /\ relay_states[a] = APAGADO
                   /\ readings'[a].present
                   /\ readings'[a].kwh = 0
                   /\ readings'[a].quality = "relay_off"]_vars

\* C11 witness: a tick has ended in which auditorio, in sensor_failure with
\* its relay ON, produced no reading on its third call while biblioteca
\* produced one.
C11_Witness ==
    /\ area_modes["auditorio"] = "sensor_failure"
    /\ relay_states["auditorio"] = ENCENDIDO
    /\ iter_left = 0 /\ iterations = 1
    /\ seq["auditorio"] = 3
    /\ ~readings["auditorio"].present
    /\ tick_readings["auditorio"] = 0
    /\ tick_readings["biblioteca"] = 1

\* the calls of a log that found the relay ON, and the alternation present,
\* absent, present, ... of a log
FoundRelayOn(call) == call.relay_on
Alternates(log) == \A i \in 1..Len(log) : log[i].present <=> (i % 2 = 1)

\* C12 as stated: the generator calls made for an area while its mode is
\* intermittent return present, absent, present, absent, ... in that order,
\* whatever relay commands and mode changes happen in between.
C12_IntermittentAlternates ==
    \A a \in Areas : Alternates(inter_log[a])

\* C12 as amended: of the generator calls made for an area while its mode is
\* intermittent, those that find the relay ON return present, absent,
\* present, ... in that order, whatever happens in between; a call that
\* finds the relay OFF returns the (present) relay_off reading and does not
\* count in the alternation.
C12_IntermittentAlternatesWhileRelayOn ==
    \A a \in Areas :
        /\ Alternates(SelectSeq(inter_log[a], FoundRelayOn))
        /\ \A i \in 1..Len(inter_log[a]) :
              ~inter_log[a][i].relay_on => inter_log[a][i].present

\* C12 witness: auditorio's three calls in intermittent mode found the relay
\* ON, OFF, ON and returned a reading, the zero reading, nothing.
C12_Witness ==
    inter_log["auditorio"] =
        <<[relay_on |-> TRUE, present |-> TRUE],
          [relay_on |-> FALSE, present |-> TRUE],
          [relay_on |-> TRUE, present |-> FALSE]>>

\* C13: across every step the drift accumulator of an area does not
\* decrease and does not exceed 3.0; a generator call that finds the relay ON
\* and the mode gradual_drift raises it by 0.02, or to 3.0 if that is less.
C13_DriftMonotoneAndCapped ==
    [][\A a \in Areas :
          /\ drift'[a] >= drift[a]
          /\ drift'[a] <= DriftCap
          /\ (/\ Generates(a) /\ gen_pc = "mode"
              /\ get(area_modes, a, "normal") = "gradual_drift") =>
                 drift'[a] = IF drift[a] + DriftStep <= DriftCap
                             THEN drift[a] + DriftStep ELSE DriftCap]_vars

\* C13 witness: auditorio's accumulator has reached 3.0 and a further call
\* in gradual_drift mode has left it there; the reading is degraded.
C13_Witness ==
    /\ drift["auditorio"] = DriftCap
    /\ seq["auditorio"] = DriftCallsBefore + 3
    /\ area_modes["auditorio"] = "gradual_drift"
    /\ readings["auditorio"].present
    /\ readings["auditorio"].quality = "degraded"
    /\ readings["auditorio"].sequence = DriftCallsBefore + 3

\* flood is the mode of exactly one area and every other area is normal
FloodOnOneArea ==
    \E f \in Areas :
        /\ area_modes[f] = "flood"
        /\ \A a \in Areas \ {f} : area_modes[a] = "normal"

\* C14 as stated: a tick of ten passes run with flood on exactly one area
\* (every relay ON) has produced 10 readings for that area and exactly 1 for
\* each other area.
C14_FloodOnlyFloodedArea ==
    (iter_left = 0 /\ iterations = FloodIterations /\ FloodOnOneArea) =>
        \A a \in Areas :
            tick_readings[a] = IF area_modes[a] = "flood"
                               THEN FloodIterations ELSE 1

\* C14 as amended: a tick that starts while flood is the mode of some area
\* runs 10 passes (any other tick 1), and a finished tick has produced one
\* reading per pass for every area, flooded or not (every relay ON, modes
\* normal or flood).
C14_FloodTenForEveryArea ==
    /\ [][(iter_left = 0 /\ iter_left' > 0) =>
            iterations' = IF \E a \in Areas : area_modes[a] = "flood"
                          THEN FloodIterations ELSE 1]_vars
    /\ [](iter_left = 0 => \A a \in Areas : tick_readings[a] = iterations)

\* C14 witness: a tick has ended with flood on auditorio only, and both
\* areas have all ten readings of it.
C14_Witness ==
    /\ iter_left = 0 /\ iterations = FloodIterations
    /\ area_modes["auditorio"] = "flood"
    /\ area_modes["biblioteca"] = "normal"
    /\ tick_readings["auditorio"] = FloodIterations
    /\ tick_readings["biblioteca"] = FloodIterations
    /\ seq["biblioteca"] = FloodIterations

\* a decodable frame whose action is the status query
IsStatusQuery(msg) == msg.valid /\ Lower(msg.accion) = "status_rele"

\* C15: handling a status query leaves every relay state, timestamp and
\* reason as it was and publishes no ack.
C15_StatusQueryNoMutation ==
    [][\A msg \in {m \in Messages : IsStatusQuery(m)} :
          OnMessage(msg) =>
              /\ UNCHANGED <<rm_states, rm_last_changed, rm_change_reasons>>
              /\ acks' = acks]_vars

\* C15 witness: biblioteca was cut and acknowledged, then a status query
\* was answered, and biblioteca is still cut with the same single ack.
C15_Witness ==
    /\ Len(relay_status) = 1
    /\ relay_status[1]["biblioteca"].estado = APAGADO
    /\ rm_states["biblioteca"] = APAGADO
    /\ rm_states["auditorio"] = ENCENDIDO
    /\ rm_last_changed = put(EmptyDict, "biblioteca", 1)
    /\ Len(acks) = 1
    /\ "origen" \in DOMAIN acks[1]

\* a snapshot that lists every registered area once with the state the
\* registry holds for it
SnapshotOf(snapshot, states) ==
    /\ DOMAIN snapshot = Areas
    /\ \A a \in Areas : snapshot[a].estado = states[a]

\* C16: a status query received by a command handler, the simulator's or the
\* dashboard's, results in exactly one relay_status publication, and that
\* snapshot holds every registered area once with its current state.
C16_StatusQueryPublishesSnapshot ==
    \A msg \in {m \in Messages : IsStatusQuery(m)} :
        /\ LET r == on_message(relay_mgr, msg, clock) IN
               /\ Len(r.status) = 1
               /\ SnapshotOf(r.status[1], rm_states)
        /\ LET r == on_mqtt_message(app, msg) IN
               /\ Len(r.status) = 1
               /\ SnapshotOf(r.status[1], relay_states)

\* a decodable frame whose action is no cut keyword, no restore keyword and
\* not the status query
IsUnrecognized(msg) ==
    /\ msg.valid
    /\ Lower(msg.accion) \notin CutKeywords \cup RestoreKeywords \cup {"status_rele"}

\* C17: a command whose action is not a recognized keyword is dropped: the
\* handler returns normally, no relay state and no audit field changes, and
\* neither an ack nor a snapshot is published.
C17_UnrecognizedActionDropped ==
    \A msg \in {m \in Messages : IsUnrecognized(m)} :
        /\ LET r == on_message(relay_mgr, msg, clock) IN
               /\ r.exc = PyNone
               /\ r.rm = relay_mgr
               /\ r.acks = <<>> /\ r.status = <<>>
        /\ LET r == on_mqtt_message(app, msg) IN
               /\ r.exc = PyNone
               /\ r.state = app
               /\ r.acks = <<>> /\ r.status = <<>>

\* C17 witness: the simulator cut biblioteca on command, its handler has
\* since logged "Unknown command action", and the record, the single ack and
\* the network thread are as the cut left them.
C17_Witness ==
    /\ log_last["simulator"] = "unknown_action"
    /\ rm_states["biblioteca"] = APAGADO
    /\ rm_change_reasons = put(EmptyDict, "biblioteca", "mantenimiento")
    /\ Len(acks) = 1 /\ relay_status = <<>>
    /\ client["simulator"].loop = "running"

\* a frame whose payload json.loads rejects, or whose object has no action
\* field (payload.get then yields "")
IsMalformed(msg) == ~msg.valid \/ msg.accion = ""

\* C18: a command whose payload cannot be decoded or lacks the action field
\* is dropped: no exception leaves the handler, no relay state changes,
\* neither an ack nor a snapshot is published, and the network thread that
\* delivers the later commands keeps running.
C18_MalformedDropped ==
    /\ \A msg \in {m \in Messages : IsMalformed(m)} :
           /\ LET r == on_message(relay_mgr, msg, clock) IN
                  /\ r.exc = PyNone
                  /\ r.rm = relay_mgr
                  /\ r.acks = <<>> /\ r.status = <<>>
           /\ LET r == on_mqtt_message(app, msg) IN
                  /\ r.exc = PyNone
                  /\ r.state = app
                  /\ r.acks = <<>> /\ r.status = <<>>
    /\ \A p \in Procs : client[p].loop = "running"

\* C18 witness: both handlers have logged an undecodable payload, both
\* network threads run, and each program has applied and acknowledged a cut.
C18_Witness ==
    /\ log_last["simulator"] = "invalid_json"
    /\ log_last["dashboard"] = "error"
    /\ \A p \in Procs : client[p].loop = "running"
    /\ rm_states["biblioteca"] = APAGADO
    /\ rm_states["auditorio"] = ENCENDIDO
    /\ relay_states["biblioteca"] = APAGADO
    /\ relay_changed_by["biblioteca"] = "telegram"
    /\ relay_states["auditorio"] = ENCENDIDO
    /\ Len(acks) = 2

\* C19: whenever a process gets connected, on the first connect and on every
\* reconnect, the retained system status is "online" afterwards and the
\* process is subscribed to the per-area and the system command filter.
C19_ConnectAnnouncesAndSubscribes ==
    [][\A p \in Procs :
          (client[p].conn # "connected" /\ client'[p].conn = "connected") =>
              /\ status' = "online"
              /\ CommandFilters \subseteq client'[p].subscriptions]_vars

\* C20: a process that has attempted a connection, and so every connected
\* process, has registered the "offline" last will.
C20_WillBeforeConnect ==
    \A p \in Procs :
        client[p].conn # "new" => client[p].will = "offline"

\* C21: when a process that is connected ends its controlled shutdown, the
\* retained system status is "offline": it was published before the
\* transport was disconnected.
C21_OfflineBeforeDisconnect ==
    [][\A p \in Procs :
          (/\ proc[p].pc = "stop" /\ proc'[p].pc = "done"
           /\ client[p].conn = "connected") => status' = "offline"]_vars

\* C22: once the shutdown signal has cleared the run flag the simulator
\* enters no new tick, and it eventually leaves the retry loop and the
\* publish loop, stops its network thread and closes the client, whether
\* or not a connection attempt ever succeeded.
C22_ShutdownTerminates ==
    /\ [][~proc["simulator"].running => ~(iter_left = 0 /\ iter_left' > 0)]_vars
    /\ (~proc["simulator"].running) ~>
           (/\ proc["simulator"].pc = "done"
            /\ client["simulator"].loop = "stopped"
            /\ client["simulator"].conn = "closed")

\* C22 witness: the signal arrived while every connection attempt had been
\* refused; main has ended without a tick and without a status publication.
C22_Witness ==
    /\ proc["simulator"] = [pc |-> "done", running |-> FALSE]
    /\ client["simulator"] = [will |-> "offline", conn |-> "closed",
                              subscriptions |-> {}, loop |-> "stopped"]
    /\ status = PyNone
    /\ iterations = 0
    /\ \A a \in Areas : seq[a] = 0

\* C23: the simulation does not wait for the broker: a process that is not
\* told to stop eventually runs a tick of its publish loop, also when every
\* connection attempt is refused.
C23_SimulatesWithoutBroker ==
    <>(~proc["simulator"].running \/ iterations > 0)

\* C24: the sequence numbers published for an area are strictly increasing:
\* a reading frame handed to the client for an area whose previous pass also
\* produced a reading carries a larger sequence number than that reading.
C24_SequenceStrictlyIncreasing ==
    [][\A a \in Areas :
          (Generates(a) /\ wire' # <<>> /\ readings[a].present) =>
              wire'[1].payload.sequence > readings[a].sequence]_vars

\* a request that names a mode outside the enum
NamesUnrecognizedMode(items) ==
    \E i \in 1..Len(items) : items[i][2] \notin SimMode

\* C25: a mode-assignment request that names an unrecognized mode changes no
\* area's mode, the areas it assigns a valid mode included.
C25_InvalidModeChangesNothing ==
    [][\A items \in {r \in ConfigRequests : NamesUnrecognizedMode(r)} :
          UpdateConfigItems(items) => area_modes' = area_modes]_vars

\* flood is the mode the publish loop looks at when a tick starts: the
\* process-wide mode of the simulator, any area's mode in the dashboard
FloodActive == MODE = "flood" \/ "flood" \in Range(area_modes)

\* the frame on the wire is a BatchSummary / a reading of area a
SummaryOnWire(w) == w # <<>> /\ w[1].topic = <<TOPIC_PREFIX, "summary">>
ReadingOnWire(w, a) == w # <<>> /\ w[1].topic = <<TOPIC_PREFIX, a, "consumo">>

Reporting == {a \in Areas : readings[a].present}
RECURSIVE LoadOf(_)
LoadOf(as) ==
    IF as = {} THEN 0
    ELSE LET a == CHOOSE x \in as : TRUE
         IN  readings[a].kwh + LoadOf(as \ {a})

\* C27: the BatchSummary of a cycle reports as many areas as the generator
\* returned a present reading for in that cycle (relay-OFF zero readings
\* included) and the sum of their loads, and never more areas than there are.
C27_SummaryCountsPresentReadings ==
    [][(LoopStep /\ SummaryOnWire(wire')) =>
          /\ wire'[1].payload.areas_reporting = Cardinality(Reporting)
          /\ wire'[1].payload.total_kwh = LoadOf(Reporting)
          /\ wire'[1].payload.areas_reporting
                 <= wire'[1].payload.areas_total]_vars

\* C28: when the generator returns absent for an area, that step of the
\* loop publishes nothing and leaves the cycle's reporting counter and total
\* load as they were: no zero reading stands in for an absent result.
C28_AbsentNotPublished ==
    [][\A a \in Areas :
          (Generates(a) /\ ~readings'[a].present) =>
              /\ wire' = <<>>
              /\ published' = published
              /\ total_kwh' = total_kwh]_vars

\* C28 witness: a cycle run with auditorio in sensor_failure and its relay
\* ON has ended; its summary reports the other area only
C28_Witness ==
    /\ area_modes[ANOMALY_AREA] = "sensor_failure"
    /\ relay_states[ANOMALY_AREA] = ENCENDIDO
    /\ ~readings[ANOMALY_AREA].present
    /\ tick_readings = [a \in Areas |-> IF a = ANOMALY_AREA THEN 0 ELSE 1]
    /\ SummaryOnWire(wire)
    /\ wire[1].payload.areas_reporting = Len(AreaOrder) - 1

\* the loop is about to generate for area a and the relay it looks at (the
\* RelayManager in the simulator, AppState in the dashboard) is OFF
GatedOff(a) ==
    /\ iter_left > 0 /\ cursor <= Len(AreaOrder) /\ AreaOrder[cursor] = a
    /\ gen_pc = "loop"
    /\ rm_states[a] = APAGADO \/ relay_states[a] = APAGADO

\* the fault mode a generator call for area a looks at: the process-wide
\* one in the simulator, the area's own in the dashboard
ModeSeen(a) == IF MODE # "normal" THEN MODE ELSE get(area_modes, a, "normal")

DriftReading(a) == readings[a].present /\ readings[a].modo = "gradual_drift"
DegradedDriftReading(a) == DriftReading(a) /\ readings[a].quality = "degraded"

\* C30: once a gradual_drift reading of an area is degraded, every later
\* reading generated for the area in gradual_drift mode with the relay ON is
\* degraded, whatever mode changes and relay commands happen in between.
C30_DegradationOneWay ==
    \A a \in Areas :
        [](DegradedDriftReading(a) => [](DriftReading(a) => DegradedDriftReading(a)))

\* C30 witness: auditorio's third call has returned a degraded gradual_drift
\* reading with the accumulator at 1.54, so an earlier call of the three had
\* already returned one at 1.52
C30_Witness ==
    /\ DegradedDriftReading(ANOMALY_AREA)
    /\ seq[ANOMALY_AREA] = DriftCallsBefore + 3
    /\ readings[ANOMALY_AREA].sequence = seq[ANOMALY_AREA]
    /\ drift[ANOMALY_AREA] = DriftDegraded + 2 * DriftStep

\* what the claim says about the label and tags of a present reading r
\* generated in mode m, in or out of the night window, with the area's
\* accumulator at d once the call has returned
LabelAsSpecified(r, m, night, d) ==
    /\ r.quality \in {"ok", "degraded", "relay_off"}
    /\ m = "anomaly" => r.quality = "degraded" /\ "spike_anomaly" \in r.tags
    /\ (m = "night_anomaly" /\ night) =>
           r.quality = "degraded" /\ "night_spike" \in r.tags
    /\ (m = "night_anomaly" /\ ~night) =>
           r.quality = "ok" /\ r.tags \cap {"night_spike", "spike_anomaly"} = {}
    /\ m = "gradual_drift" => (r.quality = "degraded" <=> d > 150)
    /\ m \in {"normal", "flood", "intermittent"} => r.quality = "ok"

\* C31: the quality label and tags of a present reading are a function of
\* relay state, area mode, night window and drift accumulator: relay OFF
\* gives relay_off; anomaly gives degraded with spike_anomaly; night_anomaly
\* gives degraded with a night spike in the night window and ok without a
\* spike tag outside it; gradual_drift gives degraded iff the accumulator
\* exceeds 1.5; normal, flood and intermittent give ok; the label is one of
\* ok, degraded, relay_off.
C31_QualityIsFunctionOfInputs ==
    /\ \A a \in Areas :
          LET r == get_reading_gate(sim, a, APAGADO)
          IN  r.done /\ r.reading.present /\ r.reading.quality = "relay_off"
    /\ \A a \in Areas, m \in SimMode, night \in BOOLEAN, kwh \in KwhSamples :
          LET r == get_reading_mode(sim, a, m, ENCENDIDO, night, kwh)
          IN  r.reading.present =>
                 LabelAsSpecified(r.reading, m, night, r.sim.drift[a])
    /\ \A a \in Areas :
          readings[a].present =>
             /\ readings[a].quality = "relay_off" <=> readings[a].modo = "relay_off"
             /\ readings[a].modo # "relay_off" =>
                    LabelAsSpecified(readings[a], readings[a].modo,
                                     "night_spike" \in readings[a].tags, drift[a])

\* C31 witness: the anomaly area, in night_anomaly mode with its relay ON,
\* has been read outside the night window: quality ok and no tag, with the
\* accumulator above 1.5 from earlier gradual_drift readings
C31_Witness ==
    /\ readings[ANOMALY_AREA].present
    /\ readings[ANOMALY_AREA].modo = "night_anomaly"
    /\ readings[ANOMALY_AREA].quality = "ok"
    /\ readings[ANOMALY_AREA].tags = {}
    /\ drift[ANOMALY_AREA] > DriftDegraded

\* the mode map that stands for a process-wide mode m: the designated area
\* in m, every other area in normal
ModeMap(m) == [a \in Areas |-> IF a = ANOMALY_AREA THEN m ELSE "normal"]

\* one call of the per-area generator for area a with the relay ON, from
\* generator state s under the mode map modes
PerAreaCall(s, a, modes, night, kwh) ==
    get_reading_mode(get_reading_gate(s, a, ENCENDIDO).sim, a,
                     get(modes, a, "normal"), ENCENDIDO, night, kwh)

\* the generator states the comparison is made in: the reachable one, with
\* the designated area's accumulator at any of the sampled values
Accumulated(d) == [sim EXCEPT !.drift[ANOMALY_AREA] = d]

\* C32: with every relay ON, a call of the single-global-mode generator and
\* a call of the per-area generator under the map {designated area -> global
\* mode, others -> normal} return the same present/absent result, quality and
\* tags and leave the same generator state, so the two agree on every
\* sequence of calls; a tick runs the same number of cycles; and an area
\* other than the designated one always gets a present reading of quality ok.
C32_GlobalModeIsDegenerateMap ==
    /\ [](\A a \in Areas, m \in SimMode, night \in BOOLEAN,
             kwh \in KwhSamples, d \in DriftSamples \cup {drift[ANOMALY_AREA]} :
            LET g == get_reading(Accumulated(d), a, m, night, kwh)
                p == PerAreaCall(Accumulated(d), a, ModeMap(m), night, kwh)
            IN  /\ g.sim = p.sim
                /\ g.reading.present = p.reading.present
                /\ g.reading.present =>
                      /\ g.reading.quality = p.reading.quality
                      /\ g.reading.tags = p.reading.tags
                      /\ g.reading.sequence = p.reading.sequence
                /\ a # ANOMALY_AREA =>
                      g.reading.present /\ g.reading.quality = "ok")
    /\ [][(iter_left = 0 /\ iter_left' > 0) =>
             iterations' = IF "flood" \in Range(ModeMap(MODE))
                           THEN FloodIterations ELSE 1]_vars

\* C32 witness: the simulator, in intermittent mode, has called the
\* generator twice for every area: the designated area's second call
\* returned nothing, the other area's a reading of quality ok
C32_Witness ==
    /\ MODE = "intermittent"
    /\ \A a \in Areas : seq[a] = 2 /\ rm_states[a] = ENCENDIDO
    /\ ~readings[ANOMALY_AREA].present
    /\ intermittent_skip = put(EmptyDict, ANOMALY_AREA, FALSE)
    /\ \A a \in Areas \ {ANOMALY_AREA} :
          readings[a].present /\ readings[a].quality = "ok"

\* an ack of the simulator (the dashboard's carries no origen)
FromSimulator(ack) == "origen" \in DOMAIN ack

\* C33: when an ack is published every target area's relay has the state
\* the ack names, and the ack's area label is "system" if the command was
\* applied to all registered areas and otherwise the one registered area
\* whose relay was set.
C33_AckReportsStateInEffect ==
    [][Len(acks') > Len(acks) =>
          LET ack == acks'[Len(acks')]
          IN  /\ ack.area \in Areas \cup {"system"}
              /\ \A a \in (IF ack.area = "system" THEN Areas ELSE {ack.area}) :
                    IF FromSimulator(ack)
                    THEN rm_states'[a] = ack.relay_state
                    ELSE relay_states'[a] = ack.relay_state
              /\ ack.area # "system" =>
                    \A a \in Areas \ {ack.area} :
                       /\ rm_states'[a] = rm_states[a]
                       /\ relay_states'[a] = relay_states[a]]_vars

\* a decodable cut or restore command on the command topic of area a
AddressedTo(msg, a) ==
    /\ msg.valid /\ msg.topic = Topic(a)
    /\ Lower(msg.accion) \in CutKeywords \cup RestoreKeywords

\* the RelayRecords of area b, in both programs, are left as they were
RecordKept(b) ==
    /\ sim_record(relay_mgr, b)' = sim_record(relay_mgr, b)
    /\ dash_record(app, b)' = dash_record(app, b)

\* C34: a cut or restore command addressed to one registered area, over
\* MQTT in either program or through the REST endpoint, leaves the relay
\* state and the audit metadata of every other area unchanged.
C34_OnlyAddressedAreaChanges ==
    [][\A a \in Areas :
          /\ \A msg \in {m \in CmdMessages : AddressedTo(m, a)} :
                (OnMessage(msg) \/ OnMqttMessage(msg)) =>
                    \A b \in Areas \ {a} : RecordKept(b)
          /\ \A cmd \in {c \in FaultRelayCommands : c.area = a} :
                ControlRelay(cmd) => \A b \in Areas \ {a} : RecordKept(b)]_vars

\* C34 witness: both programs have cut biblioteca on an MQTT command and
\* acknowledged it, and auditorio's records are those of process start
C34_Witness ==
    /\ Len(acks) = 2
    /\ \A k \in 1..2 : acks[k].area = "biblioteca" /\ acks[k].relay_state = APAGADO
    /\ sim_record(relay_mgr, "biblioteca").state = APAGADO
    /\ dash_record(app, "biblioteca").state = APAGADO
    /\ sim_record(relay_mgr, "auditorio") =
          [state |-> ENCENDIDO, reason |-> "", last_changed |-> 0]
    /\ dash_record(app, "auditorio") =
          [state |-> ENCENDIDO, reason |-> "", actor |-> "sistema"]

\* C35: no step of the publish loop, generator calls included, changes any
\* area's relay state or mode; they change only through the command
\* handlers and the REST endpoints, so a relay set OFF stays OFF across
\* ticks until a restore command is applied.
C35_LoopKeepsRelaysAndModes ==
    [][LoopStep =>
          /\ relay_states' = relay_states
          /\ area_modes' = area_modes
          /\ rm_states' = rm_states
          /\ MODE' = MODE]_vars

\* C35 witness: the anomaly area, in intermittent mode, has been called in
\* three ticks; all three calls found the relay OFF, and relay and mode are
\* still as they were set
C35_Witness ==
    /\ relay_states[ANOMALY_AREA] = APAGADO
    /\ area_modes[ANOMALY_AREA] = "intermittent"
    /\ Len(inter_log[ANOMALY_AREA]) = 3
    /\ \A k \in 1..3 : ~inter_log[ANOMALY_AREA][k].relay_on
    /\ readings[ANOMALY_AREA].present
    /\ readings[ANOMALY_AREA].quality = "relay_off"
    /\ readings[ANOMALY_AREA].sequence = 3

\* the simulation thread has finished a tick and is in
\* time.sleep(state.interval_sec)
Sleeping == iterations > 0 /\ iter_left = 0

\* C36: the interval the publish loop sleeps for is within [1, 60] seconds
\* whatever value was configured from outside.
C36_SleepWithinBounds ==
    Sleeping => interval_sec >= 10 /\ interval_sec <= 600

\* the command control_relay publishes on edificio/{a}/comando for cmd
PublishedFor(cmd, a) ==
    [topic |-> Topic(a), valid |-> TRUE, accion |-> cmd.accion,
     motivo |-> cmd.motivo, origen |-> cmd.origen]

\* the state a keyword stands for
KeywordState(accion) == IF accion \in CutKeywords THEN APAGADO ELSE ENCENDIDO

\* C37: for every action keyword and registered target area, the relay
\* state the REST endpoint sets equals the state each MQTT command handler
\* sets for the command the endpoint then publishes: OFF for a cut keyword,
\* ON for a restore keyword.
C37_RestAgreesWithMqtt ==
    [][\A cmd \in {c \in RelayCommands :
                      /\ c.area \in Areas
                      /\ c.accion \in CutKeywords \cup RestoreKeywords} :
          ControlRelay(cmd) =>
             LET a == cmd.area
                 msg == PublishedFor(cmd, a)
             IN  /\ relay_states'[a] = KeywordState(cmd.accion)
                 /\ on_mqtt_message(app, msg).state.relay_states[a]
                        = relay_states'[a]
                 /\ on_message(relay_mgr, msg, clock).rm.states[a]
                        = relay_states'[a]]_vars

\* the publish loop produces a reading for area a, for which the generator
\* has not been called and nothing has been produced before
FirstReading(a) ==
    /\ Generates(a) /\ seq[a] = 0 /\ ~readings[a].present
    /\ readings'[a].present

\* the first reading generated for an area carries sequence number 1
FirstSequenceIsOne ==
    [][\A a \in Areas : FirstReading(a) => readings'[a].sequence = 1]_vars

\* C38: at process start every registered area's relay is ON, its sequence
\* counter zero, its drift accumulator zero and its skip flag false, and the
\* first reading generated for an area carries sequence number 1.
C38_StartStateAndFirstSequence ==
    /\ \A a \in Areas :
          /\ is_on(relay_mgr, a) /\ relay_states[a] = ENCENDIDO
          /\ seq[a] = 0
          /\ drift[a] = 0
          /\ ~get(intermittent_skip, a, FALSE)
    /\ FirstSequenceIsOne

====